---- MODULE Spec2Model ----
(***************************************************************************)
(* Model of the raw (PB/HTTP) sample-stream decoder of PyArchAppl,         *)
(* archappl/data/pb/decode.py: unescape, get_sample_parser and the line    *)
(* loop of unpack_raw_data.  Bytes are the naturals 0..255, a line or a    *)
(* buffer is a sequence of bytes.                                          *)
(***************************************************************************)
EXTENDS Integers, Sequences, FiniteSets, TLC

\* ---------------------------------------------------------------- bounds
\* longest byte string handed to unescape in SpecUnescape
MaxLen == 4
\* largest number of lines of a buffer handed to unpack_raw_data
MaxLines == 4
\* largest number of blank lines inserted at one place
MaxInsert == 2
MaxSamples == 2       \* data lines of a buffer handed to normalize
MaxCallLines == 2     \* lines of a buffer of the concurrent calls
MaxTypeLines == 2     \* data lines after a header of each sample type
MaxBlockLines == 2    \* data lines of each of the two blocks of a buffer
MaxHeaders == 3       \* extra headers (FieldValue entries) of a header line
MaxPvs == 2           \* longest list of PV names handed to get_pv_status
MaxTime == 2          \* latest second at which the archiver holds a sample
MaxDatasetCalls == 2  \* calls of get_dataset_with_pvs on one client
MaxLastN == 2         \* largest last_n handed to normalize
MaxHours == 3         \* hours around a transition of daylight saving time
MaxDelta == 3         \* largest number of hours in the text handed to parse_dt

\* ------------------------------------------------------------ byte values
ESC == 27
LF == 10
CR == 13

\* bytes.strip() without argument removes ASCII whitespace at both ends
Whitespace == {9, 10, 11, 12, 13, 32}

\* --------------------------------------------------------------- unescape
\* the table t of unescape: 2-byte escape sequence -> literal byte
t_swapped == (<<27, 1>> :> 27) @@ (<<27, 2>> :> 13) @@ (<<27, 3>> :> 10)

t == (<<27, 1>> :> 27) @@ (<<27, 2>> :> 10) @@ (<<27, 3>> :> 13)

RECURSIVE unescape_scan(_)
unescape_scan(line) ==
    IF line = <<>> THEN <<>>
    ELSE IF Len(line) >= 2 /\ <<line[1], line[2]>> \in DOMAIN t
         THEN <<t[<<line[1], line[2]>>]>> \o unescape_scan(SubSeq(line, 3, Len(line)))
         ELSE <<line[1]>> \o unescape_scan(Tail(line))

\* a decoder that substitutes again in its own output until nothing changes
RECURSIVE unescape_rescan(_)
unescape_rescan(line) ==
    LET once == unescape_scan(line)
    IN  IF once = line THEN line ELSE unescape_rescan(once)

\* a decoder that drops an ESC that starts no escape sequence
RECURSIVE unescape_drop(_)
unescape_drop(line) ==
    IF line = <<>> THEN <<>>
    ELSE IF Len(line) >= 2 /\ <<line[1], line[2]>> \in DOMAIN t
         THEN <<t[<<line[1], line[2]>>]>> \o unescape_drop(SubSeq(line, 3, Len(line)))
         ELSE IF line[1] = ESC THEN unescape_drop(Tail(line))
         ELSE <<line[1]>> \o unescape_drop(Tail(line))

\* r.sub(lambda m: t[m.group()], line): the matches of the alternation
\* 1B01|1B02|1B03 are found left to right, the scan resumes after each match
unescape(line) == unescape_scan(line)

\* the reference encoder of the wire format (inverse of the table)
RECURSIVE escape(_)
escape(x) ==
    IF x = <<>> THEN <<>>
    ELSE (CASE x[1] = ESC -> <<ESC, 1>>
            [] x[1] = LF  -> <<ESC, 2>>
            [] x[1] = CR  -> <<ESC, 3>>
            [] OTHER      -> <<x[1]>>) \o escape(Tail(x))

\* ------------------------------------------------------ bytes.split/strip
RECURSIVE lstrip(_)
lstrip(line) ==
    IF line # <<>> /\ line[1] \in Whitespace THEN lstrip(Tail(line)) ELSE line

RECURSIVE rstrip(_)
rstrip(line) ==
    IF line # <<>> /\ line[Len(line)] \in Whitespace
    THEN rstrip(SubSeq(line, 1, Len(line) - 1)) ELSE line

strip(line) == rstrip(lstrip(line))

\* data.split(b'\n'): the pieces between separators; n separators give n+1
\* pieces, and the empty buffer gives one empty piece
RECURSIVE SplitFrom(_, _)
SplitFrom(data, cur) ==
    IF data = <<>> THEN <<cur>>
    ELSE IF data[1] = LF THEN <<cur>> \o SplitFrom(Tail(data), <<>>)
    ELSE SplitFrom(Tail(data), Append(cur, data[1]))

split(data) == SplitFrom(data, <<>>)

RECURSIVE Join(_)
Join(ls) ==
    IF ls = <<>> THEN <<>>
    ELSE IF Len(ls) = 1 THEN ls[1]
    ELSE ls[1] \o <<LF>> \o Join(Tail(ls))

\* ------------------------------------------- EPICSEvent_pb2 (wire format)
\* The generated module EPICSEvent_pb2 decodes protocol-buffer messages:
\* a message is a run of fields, each a tag byte (field number * 8 + wire
\* type) followed by a varint (wire type 0), a length and that many bytes
\* (wire type 2) or 8 / 4 fixed bytes (wire types 1 / 5).
RECURSIVE ReadVarint(_, _)
ReadVarint(b, p) ==
    IF p > Len(b) THEN [ok |-> FALSE, val |-> 0, next |-> p]
    ELSE IF b[p] < 128 THEN [ok |-> TRUE, val |-> b[p], next |-> p + 1]
    ELSE LET r == ReadVarint(b, p + 1)
         IN  [ok |-> r.ok, val |-> (b[p] - 128) + 128 * r.val, next |-> r.next]

NoFields == [ok |-> FALSE, fields |-> <<>>]

RECURSIVE ParseFields(_, _)
ParseFields(b, p) ==
    IF p > Len(b) THEN [ok |-> TRUE, fields |-> <<>>]
    ELSE
      LET tag == b[p]
          num == tag \div 8
          wt  == tag % 8
          Cons(fld, next) ==
              LET rest == ParseFields(b, next)
              IN  IF rest.ok THEN [ok |-> TRUE, fields |-> <<fld>> \o rest.fields]
                  ELSE NoFields
      IN  IF tag >= 128 \/ num = 0 THEN NoFields
          ELSE IF wt = 0 THEN
              LET v == ReadVarint(b, p + 1)
              IN  IF v.ok
                  THEN Cons([num |-> num, wt |-> 0, val |-> v.val, bytes |-> <<>>], v.next)
                  ELSE NoFields
          ELSE IF wt = 2 THEN
              IF p + 1 <= Len(b) /\ b[p + 1] < 128 /\ p + 1 + b[p + 1] <= Len(b)
              THEN Cons([num |-> num, wt |-> 2, val |-> 0,
                         bytes |-> SubSeq(b, p + 2, p + 1 + b[p + 1])], p + 2 + b[p + 1])
              ELSE NoFields
          ELSE IF wt = 1 THEN
              IF p + 8 <= Len(b)
              THEN Cons([num |-> num, wt |-> 1, val |-> 0, bytes |-> SubSeq(b, p + 1, p + 8)], p + 9)
              ELSE NoFields
          ELSE IF wt = 5 THEN
              IF p + 4 <= Len(b)
              THEN Cons([num |-> num, wt |-> 5, val |-> 0, bytes |-> SubSeq(b, p + 1, p + 4)], p + 5)
              ELSE NoFields
          ELSE NoFields

\* the fields of number num and wire type wt, in wire order
FieldsOf(fields, num, wt) ==
    SelectSeq(fields, LAMBDA x : x.num = num /\ x.wt = wt)

\* a singular varint field: the last occurrence wins, 0 when absent
VarintField(fields, num) ==
    LET fs == FieldsOf(fields, num, 0)
    IN  IF fs = <<>> THEN 0 ELSE fs[Len(fs)].val

\* a singular string field: the last occurrence wins, empty when absent
BytesField(fields, num) ==
    LET fs == FieldsOf(fields, num, 2)
    IN  IF fs = <<>> THEN <<>> ELSE fs[Len(fs)].bytes

\* message FieldValue { name = 1; val = 2 }
RECURSIVE ParseFieldValues(_)
ParseFieldValues(fs) ==
    IF fs = <<>> THEN [ok |-> TRUE, items |-> <<>>]
    ELSE LET m    == ParseFields(fs[1].bytes, 1)
             rest == ParseFieldValues(Tail(fs))
         IN  IF m.ok /\ rest.ok
             THEN [ok |-> TRUE,
                   items |-> <<[name |-> BytesField(m.fields, 1),
                                val  |-> BytesField(m.fields, 2)]>> \o rest.items]
             ELSE [ok |-> FALSE, items |-> <<>>]

\* pb.PayloadInfo().ParseFromString(b):
\* message PayloadInfo { type = 1; pvname = 2; year = 3; headers = 15 }
PayloadInfo_ParseFromString(b) ==
    LET m  == ParseFields(b, 1)
        hs == IF m.ok THEN ParseFieldValues(FieldsOf(m.fields, 15, 2))
              ELSE [ok |-> FALSE, items |-> <<>>]
    IN  IF m.ok /\ hs.ok
        THEN [ok |-> TRUE, type |-> VarintField(m.fields, 1),
              pvname |-> BytesField(m.fields, 2),
              year |-> VarintField(m.fields, 3), headers |-> hs.items]
        ELSE [ok |-> FALSE, type |-> 0, pvname |-> <<>>, year |-> 0, headers |-> <<>>]

\* the enum PayloadType: the name of tag i is PayloadTypeNames[i + 1]
PayloadTypeNames ==
    << "SCALAR_STRING", "SCALAR_SHORT", "SCALAR_FLOAT", "SCALAR_ENUM",
       "SCALAR_BYTE", "SCALAR_INT", "SCALAR_DOUBLE", "WAVEFORM_STRING",
       "WAVEFORM_SHORT", "WAVEFORM_FLOAT", "WAVEFORM_ENUM", "WAVEFORM_BYTE",
       "WAVEFORM_INT", "WAVEFORM_DOUBLE", "V4_GENERIC_BYTES" >>

\* the payload shape of a message class
VectorClasses ==
    {"VectorString", "VectorShort", "VectorFloat", "VectorEnum", "VectorChar",
     "VectorInt", "VectorDouble"}
StringClasses == {"ScalarString", "ScalarByte", "VectorString", "VectorChar", "V4GenericBytes"}

RECURSIVE Flatten(_)
Flatten(fs) ==
    IF fs = <<>> THEN <<>>
    ELSE <<Len(fs[1].bytes)>> \o fs[1].bytes \o Flatten(Tail(fs))

\* the val field (number 3) of a sample message of class cls
SampleVal(cls, fields) ==
    IF cls \in StringClasses
    THEN IF cls \in VectorClasses
         THEN [shape |-> "string_sequence", items |-> Flatten(FieldsOf(fields, 3, 2))]
         ELSE [shape |-> "string", items |-> BytesField(fields, 3)]
    ELSE IF cls \in VectorClasses
         THEN [shape |-> "sequence",
               items |-> [j \in 1..Len(FieldsOf(fields, 3, 0)) |-> FieldsOf(fields, 3, 0)[j].val]]
         ELSE [shape |-> "scalar", items |-> <<VarintField(fields, 3)>>]

\* a new message object of class cls: every field at its default
NewMessage(cls) ==
    [cls |-> cls, secondsintoyear |-> 0, nano |-> 0,
     val |-> SampleVal(cls, <<>>), severity |-> 0, status |-> 0]

\* f.MergeFromString(b): reads the fields into the message as it is, so that
\* an absent field keeps the value of the line before
Sample_ParseFromString_merge(f, b) ==
    LET m == ParseFields(b, 1)
        Kept(num, old) ==
            IF FieldsOf(m.fields, num, 0) = <<>> THEN old ELSE VarintField(m.fields, num)
    IN  IF m.ok
        THEN [ok |-> TRUE,
              msg |-> [cls |-> f.cls,
                       secondsintoyear |-> Kept(1, f.secondsintoyear),
                       nano |-> Kept(2, f.nano),
                       val |-> IF FieldsOf(m.fields, 3, 0) = <<>> /\ FieldsOf(m.fields, 3, 2) = <<>>
                               THEN f.val ELSE SampleVal(f.cls, m.fields),
                       severity |-> Kept(4, f.severity),
                       status |-> Kept(5, f.status)]]
        ELSE [ok |-> FALSE, msg |-> f]

\* f.ParseFromString(b): clears the message, then reads the fields
\* { secondsintoyear = 1; nano = 2; val = 3; severity = 4; status = 5 }
Sample_ParseFromString(f, b) ==
    LET m == ParseFields(b, 1)
    IN  IF m.ok
        THEN [ok |-> TRUE,
              msg |-> [cls |-> f.cls,
                       secondsintoyear |-> VarintField(m.fields, 1),
                       nano |-> VarintField(m.fields, 2),
                       val |-> SampleVal(f.cls, m.fields),
                       severity |-> VarintField(m.fields, 4),
                       status |-> VarintField(m.fields, 5)]]
        ELSE [ok |-> FALSE, msg |-> f]

\* ------------------------------------------------------ decode.py: tables
\* a table in which WAVEFORM_INT has the parser of SCALAR_INT
SAMPLE_PARSER_MAP_shared ==
    [n \in {PayloadTypeNames[j] : j \in 1..Len(PayloadTypeNames)} |->
        CASE n = "SCALAR_STRING"    -> "ScalarString"
          [] n = "SCALAR_SHORT"     -> "ScalarShort"
          [] n = "SCALAR_FLOAT"     -> "ScalarFloat"
          [] n = "SCALAR_ENUM"      -> "ScalarEnum"
          [] n = "SCALAR_BYTE"      -> "ScalarByte"
          [] n = "SCALAR_INT"       -> "ScalarInt"
          [] n = "SCALAR_DOUBLE"    -> "ScalarDouble"
          [] n = "WAVEFORM_STRING"  -> "VectorString"
          [] n = "WAVEFORM_SHORT"   -> "VectorShort"
          [] n = "WAVEFORM_FLOAT"   -> "VectorFloat"
          [] n = "WAVEFORM_ENUM"    -> "VectorEnum"
          [] n = "WAVEFORM_BYTE"    -> "VectorChar"
          [] n = "WAVEFORM_INT"     -> "ScalarInt"
          [] n = "WAVEFORM_DOUBLE"  -> "VectorDouble"
          [] n = "V4_GENERIC_BYTES" -> "V4GenericBytes"]

SAMPLE_PARSER_MAP ==
    [n \in {PayloadTypeNames[j] : j \in 1..Len(PayloadTypeNames)} |->
        CASE n = "SCALAR_STRING"    -> "ScalarString"
          [] n = "SCALAR_SHORT"     -> "ScalarShort"
          [] n = "SCALAR_FLOAT"     -> "ScalarFloat"
          [] n = "SCALAR_ENUM"      -> "ScalarEnum"
          [] n = "SCALAR_BYTE"      -> "ScalarByte"
          [] n = "SCALAR_INT"       -> "ScalarInt"
          [] n = "SCALAR_DOUBLE"    -> "ScalarDouble"
          [] n = "WAVEFORM_STRING"  -> "VectorString"
          [] n = "WAVEFORM_SHORT"   -> "VectorShort"
          [] n = "WAVEFORM_FLOAT"   -> "VectorFloat"
          [] n = "WAVEFORM_ENUM"    -> "VectorEnum"
          [] n = "WAVEFORM_BYTE"    -> "VectorChar"
          [] n = "WAVEFORM_INT"     -> "VectorInt"
          [] n = "WAVEFORM_DOUBLE"  -> "VectorDouble"
          [] n = "V4_GENERIC_BYTES" -> "V4GenericBytes"]

\* a lookup that falls back to the first entry for a tag outside the table
get_sample_parser_default(i_type) ==
    IF i_type + 1 \in DOMAIN PayloadTypeNames
    THEN [ok |-> TRUE, cls |-> SAMPLE_PARSER_MAP[PayloadTypeNames[i_type + 1]], err |-> ""]
    ELSE [ok |-> TRUE, cls |-> "ScalarString", err |-> ""]

\* SAMPLE_PARSER_MAP[pb.PayloadType.Name(i_type)]: Name raises ValueError
\* for a number that is no member of the enum
get_sample_parser(i_type) ==
    IF i_type + 1 \in DOMAIN PayloadTypeNames
    THEN IF PayloadTypeNames[i_type + 1] \in DOMAIN SAMPLE_PARSER_MAP
         THEN [ok |-> TRUE, cls |-> SAMPLE_PARSER_MAP[PayloadTypeNames[i_type + 1]], err |-> ""]
         ELSE [ok |-> FALSE, cls |-> "", err |-> "KeyError"]
    ELSE [ok |-> FALSE, cls |-> "", err |-> "ValueError"]

\* (datetime(year, 1, 1) - datetime(1970, 1, 1)).total_seconds()
DaysBeforeYear(y) ==
    365 * (y - 1) + ((y - 1) \div 4) - ((y - 1) \div 100) + ((y - 1) \div 400)

\* A number of seconds since the Epoch is kept as whole days plus seconds,
\* days * 86400 + secs, so that no year leaves the range of the integers.
YearInSec(y) == [days |-> DaysBeforeYear(y) - DaysBeforeYear(1970), secs |-> 0]

\* datetime(year, 1, 1) raises ValueError outside MINYEAR..MAXYEAR
ValidYear(y) == y \in 1..9999

\* the key 'name' of the metadata dictionary
NameKey == <<110, 97, 109, 101>>

DictSet(d, key, v) ==
    [x \in (DOMAIN d) \cup {key} |-> IF x = key THEN v ELSE d[x]]

EmptyDict == [x \in {} |-> <<>>]

\* {f.name: f.val for f in I.headers}
RECURSIVE HeadersDict(_, _)
HeadersDict(d, hs) ==
    IF hs = <<>> THEN d
    ELSE HeadersDict(DictSet(d, hs[1].name, hs[1].val), Tail(hs))

\* a dictionary in which an extra header named 'name' replaces the pvname
MakeHeaderDict_namefirst(I) ==
    HeadersDict(DictSet(EmptyDict, NameKey, I.pvname), I.headers)

\* header_dict after lines 66-67
MakeHeaderDict(I) == DictSet(HeadersDict(EmptyDict, I.headers), NameKey, I.pvname)

\* ------------------------------------------------- unpack_raw_data: state
\* The local variables of one call, as a record.  A name that is not bound
\* yet is the empty sequence, a bound one is a sequence of length 1.
\* parsed is the history of the calls of ParseFromString: which raw line,
\* as what (header / sample), on which bytes, with what outcome.
InitLocals ==
    [hit_header |-> TRUE, year |-> <<>>, f |-> <<>>, header_dict |-> <<>>,
     year_in_sec |-> <<>>, unpacked_data |-> <<>>, i |-> 0,
     pc |-> "loop", err |-> "", result |-> <<>>, log |-> <<>>, parsed |-> <<>>]

Raise(s, e) == [s EXCEPT !.pc = "raised", !.err = e]

\* a blank line that flips the flag instead of setting it
BlankStep_toggle(s) == [s EXCEPT !.hit_header = ~ s.hit_header]

\* lines 54-56
BlankStep(s) == [s EXCEPT !.hit_header = TRUE]

\* a header line that keeps the year base of the first header
HeaderStep_firstyear(s, raw, unescaped_line) ==
    LET I  == PayloadInfo_ParseFromString(unescaped_line)
        p  == get_sample_parser(I.type)
        at == [kind |-> "header", raw |-> raw, bytes |-> unescaped_line, ok |-> FALSE]
        failed == [s EXCEPT !.parsed = Append(@, at)]
    IN  IF ~ I.ok THEN Raise(failed, "DecodeError")
        ELSE IF ~ p.ok THEN Raise(failed, p.err)
        ELSE IF ~ ValidYear(I.year) THEN Raise(failed, "ValueError")
        ELSE [s EXCEPT !.year = <<I.year>>,
                       !.f = <<NewMessage(p.cls)>>,
                       !.hit_header = FALSE,
                       !.header_dict = <<MakeHeaderDict(I)>>,
                       !.year_in_sec = IF @ = <<>> THEN <<YearInSec(I.year)>> ELSE @,
                       !.parsed = Append(@, [at EXCEPT !.ok = TRUE])]

\* a header line that leaves the flag set
HeaderStep_keepflag(s, raw, unescaped_line) ==
    LET I  == PayloadInfo_ParseFromString(unescaped_line)
        p  == get_sample_parser(I.type)
        at == [kind |-> "header", raw |-> raw, bytes |-> unescaped_line, ok |-> FALSE]
        failed == [s EXCEPT !.parsed = Append(@, at)]
    IN  IF ~ I.ok THEN Raise(failed, "DecodeError")
        ELSE IF ~ p.ok THEN Raise(failed, p.err)
        ELSE IF ~ ValidYear(I.year) THEN Raise(failed, "ValueError")
        ELSE [s EXCEPT !.year = <<I.year>>,
                       !.f = <<NewMessage(p.cls)>>,
                       !.header_dict = <<MakeHeaderDict(I)>>,
                       !.year_in_sec = <<YearInSec(I.year)>>,
                       !.parsed = Append(@, [at EXCEPT !.ok = TRUE])]

\* lines 61-68
HeaderStep(s, raw, unescaped_line) ==
    LET I  == PayloadInfo_ParseFromString(unescaped_line)
        p  == get_sample_parser(I.type)
        at == [kind |-> "header", raw |-> raw, bytes |-> unescaped_line, ok |-> FALSE]
        failed == [s EXCEPT !.parsed = Append(@, at)]
    IN  IF ~ I.ok THEN Raise(failed, "DecodeError")
        ELSE IF ~ p.ok THEN Raise(failed, p.err)
        ELSE IF ~ ValidYear(I.year) THEN Raise(failed, "ValueError")
        ELSE [s EXCEPT !.year = <<I.year>>,
                       !.f = <<NewMessage(p.cls)>>,
                       !.hit_header = FALSE,
                       !.header_dict = <<MakeHeaderDict(I)>>,
                       !.year_in_sec = <<YearInSec(I.year)>>,
                       !.parsed = Append(@, [at EXCEPT !.ok = TRUE])]

\* the dictionary appended in lines 72-77
SampleDict(year_in_sec, f) ==
    [secs |-> [year_in_sec EXCEPT !.secs = @ + f.secondsintoyear], val |-> f.val, nanos |-> f.nano,
     status |-> f.status, severity |-> f.severity]

\* a data line that is skipped when it cannot be decoded
DataStep_skip(s, raw, unescaped_line) ==
    LET r  == Sample_ParseFromString(s.f[1], unescaped_line)
        at == [kind |-> "sample", raw |-> raw, bytes |-> unescaped_line, ok |-> r.ok]
    IN  IF s.f = <<>> THEN Raise(s, "UnboundLocalError")
        ELSE IF ~ r.ok THEN [s EXCEPT !.i = @ + 1, !.parsed = Append(@, at)]
        ELSE [s EXCEPT !.i = @ + 1, !.f = <<r.msg>>,
                       !.unpacked_data = Append(@, SampleDict(s.year_in_sec[1], r.msg)),
                       !.parsed = Append(@, at)]

\* lines 70-77; reading f before a header line bound it would raise
DataStep(s, raw, unescaped_line) ==
    LET r  == Sample_ParseFromString(s.f[1], unescaped_line)
        at == [kind |-> "sample", raw |-> raw, bytes |-> unescaped_line, ok |-> r.ok]
    IN  IF s.f = <<>> THEN Raise(s, "UnboundLocalError")
        ELSE IF ~ r.ok
        THEN Raise([s EXCEPT !.i = @ + 1, !.parsed = Append(@, at)], "DecodeError")
        ELSE [s EXCEPT !.i = @ + 1, !.f = <<r.msg>>,
                       !.unpacked_data = Append(@, SampleDict(s.year_in_sec[1], r.msg)),
                       !.parsed = Append(@, at)]

\* one iteration of the for loop, lines 52-77
LoopBody(s, raw) ==
    LET line == strip(raw)
    IN  IF line = <<>> THEN BlankStep(s)
        ELSE IF s.hit_header THEN HeaderStep(s, raw, unescape(line))
        ELSE DataStep(s, raw, unescape(line))

\* the timestamp order of two sample dictionaries
Earlier(a, b) ==
    \/ a.secs.days < b.secs.days
    \/ a.secs.days = b.secs.days /\ a.secs.secs < b.secs.secs
    \/ a.secs.days = b.secs.days /\ a.secs.secs = b.secs.secs /\ a.nanos < b.nanos

RECURSIVE InsertByTime(_, _)
InsertByTime(d, ds) ==
    IF ds = <<>> THEN <<d>>
    ELSE IF Earlier(d, ds[1]) THEN <<d>> \o ds
    ELSE <<ds[1]>> \o InsertByTime(d, Tail(ds))

RECURSIVE SortByTime(_)
SortByTime(ds) ==
    IF ds = <<>> THEN <<>> ELSE InsertByTime(ds[1], SortByTime(Tail(ds)))

\* a return that sorts the samples by timestamp
ReturnStep_sorted(s) ==
    IF s.header_dict = <<>> THEN Raise(s, "UnboundLocalError")
    ELSE [s EXCEPT !.log = Append(@, [level |-> "DEBUG", i |-> s.i,
                                      name |-> s.header_dict[1][NameKey]]),
                   !.result = <<[meta |-> s.header_dict[1],
                                 data |-> SortByTime(s.unpacked_data)]>>,
                   !.pc = "returned"]

\* lines 78-79: the f-string reads header_dict, which no header line bound
ReturnStep(s) ==
    IF s.header_dict = <<>> THEN Raise(s, "UnboundLocalError")
    ELSE [s EXCEPT !.log = Append(@, [level |-> "DEBUG", i |-> s.i,
                                      name |-> s.header_dict[1][NameKey]]),
                   !.result = <<[meta |-> s.header_dict[1], data |-> s.unpacked_data]>>,
                   !.pc = "returned"]

\* the whole call as a function of the buffer
RECURSIVE RunLines(_, _, _)
RunLines(s, ls, n) ==
    IF s.pc = "raised" THEN s
    ELSE IF n > Len(ls) THEN ReturnStep(s)
    ELSE RunLines(LoopBody(s, ls[n]), ls, n + 1)

unpack_raw_data(buf) == RunLines(InitLocals, split(buf), 1)

\* what the caller sees of a finished call
Outcome(s) == [pc |-> s.pc, err |-> s.err, result |-> s.result]

\* ------------------------------------------------------------- variables
VARIABLES
    data,           \* the buffer handed to unpack_raw_data
    lines,          \* data.split(b'\n')
    k,              \* position of the for loop in lines
    hit_header, year, f, header_dict, year_in_sec, unpacked_data, i,
    pc,             \* "call", "loop", "returned", "raised" ("idle": no call)
    err,            \* the exception that left the call
    result,         \* the returned list
    log,            \* the events handed to _LOGGER
    parsed,         \* history of the ParseFromString calls
    x,              \* the byte string handed to unescape / escape
    escaped,        \* escape(x)
    unescaped,      \* the value returned by unescape
    upc             \* "start", "unescaped", "escaped", "roundtrip" ("idle")

locals == <<hit_header, year, f, header_dict, year_in_sec, unpacked_data, i,
            pc, err, result, log, parsed>>
uvars == <<x, escaped, unescaped, upc>>
dvars == <<data, lines, k, locals>>

\* a Python value that is a str or a list of str, by its type and its
\* element(s); shape "none" stands for no value, err for a raised exception
StrValue(s) == [shape |-> "str", items |-> <<s>>, err |-> ""]

ListValue(ss) == [shape |-> "list", items |-> ss, err |-> ""]

Raised(e) == [shape |-> "none", items |-> <<>>, err |-> e]

NoValue == Raised("")

\* ------------------------------------------------- further components
\* normalize
VARIABLES
    last_n,         \* the keyword argument last_n of normalize
    df              \* the value returned by normalize (<<>>: not called)

nvars == <<last_n, df>>

NormalizeIdle == last_n = 0 /\ df = <<>>

\* concurrent calls of unpack_raw_data
VARIABLES
    calls           \* per thread: the buffer, the split lines, the loop position and the locals of its call

cvars == <<calls>>

CallsIdle == calls = <<>>

\* contrib get_pv_status
VARIABLES
    pv,             \* the argument pv: a str or a list of str
    pvstatus,       \* the status of every PV as the archiver reports it
    status_r        \* the value returned by get_pv_status (shape "none": not called)

svars == <<pv, pvstatus, status_r>>

StatusIdle == pv = NoValue /\ pvstatus = <<>> /\ status_r = NoValue

\* ArchiverDataClient
VARIABLES
    SITE_DATA_URL,  \* the data URL of the site configuration
    SITE_DATA_FORMAT, \* the data format of the site configuration
    url_config,     \* self._url_config (<<>>: no client constructed)
    assigned,       \* the values last assigned to url and to format, None as <<>>
    url_read        \* the value last read from client.url

clvars == <<SITE_DATA_URL, SITE_DATA_FORMAT, url_config, assigned, url_read>>

ClientIdle == SITE_DATA_URL = "" /\ SITE_DATA_FORMAT = "" /\ url_config = <<>>
              /\ assigned = <<>> /\ url_read = ""

\* get_dataset_with_pvs and pyarchappl-get
VARIABLES
    archive,        \* per PV, the seconds of 2020 at which the archiver holds a sample
    sent,           \* the requests sent: PV, format of the URL, use_json of the call
    dset,           \* the value returned by the last call (<<>>: no call)
    ncalls,         \* the number of calls of get_dataset_with_pvs made
    args            \* the command line of pyarchappl-get (<<>>: not run)

dsvars == <<archive, sent, dset, ncalls, args>>

DatasetIdle == archive = <<>> /\ sent = <<>> /\ dset = <<>> /\ ncalls = 0 /\ args = <<>>

\* get_config_path
VARIABLES
    environ,        \* os.environ.get(ENV_CONFIG_PATH_NAME): <<>> for None, <<path>> when set
    files,          \* the paths that are files
    config_path     \* the path returned by get_config_path (<<>>: not called)

cfvars == <<environ, files, config_path>>

ConfigIdle == environ = <<>> /\ files = {} /\ config_path = <<>>

\* datetime_with_timezone and parse_dt
VARIABLES
    LOCAL_ZONE_NAME, \* the name of the local time zone of the site configuration
    date_time,      \* the argument date_time of datetime_with_timezone
    time_zone,      \* the argument time_zone: <<>> for None, <<name>>
    dwt_r,          \* the value returned by datetime_with_timezone (<<>>: not called)
    dt,             \* the argument dt of parse_dt, as its words
    ref_datetime,   \* the argument ref_datetime of parse_dt
    epoch,          \* the argument epoch of parse_dt
    parse_r         \* the outcome of parse_dt (<<>>: not called)

tvars == <<LOCAL_ZONE_NAME, date_time, time_zone, dwt_r, dt, ref_datetime, epoch, parse_r>>

DatetimeIdle == LOCAL_ZONE_NAME = "" /\ date_time = <<>> /\ time_zone = <<>> /\ dwt_r = <<>>
    /\ dt = <<>> /\ ref_datetime = <<>> /\ epoch = FALSE /\ parse_r = <<>>

\* ArchiverMgmtClient.get_pv_status
VARIABLES
    mgmt_pv,        \* the argument pv: a str or a list of str
    mgmt_kws,       \* the keyword arguments of the call
    mgmt_srv,       \* the status of every PV as the archiver reports it
    mgmt_sent,      \* the parameters of the requests sent, in order
    mgmt_r          \* the dict returned (<<>>: not called, else <<dict>>)

mvars == <<mgmt_pv, mgmt_kws, mgmt_srv, mgmt_sent, mgmt_r>>

MgmtIdle == mgmt_pv = NoValue /\ mgmt_kws = <<>> /\ mgmt_srv = <<>> /\ mgmt_sent = <<>> /\ mgmt_r = <<>>

\* the variables of the components above, and all of them but one
ext == <<nvars, cvars, svars, clvars, dsvars, cfvars, tvars, mvars>>

ext_Normalize == <<cvars, svars, clvars, dsvars, cfvars, tvars, mvars>>

ext_Calls == <<nvars, svars, clvars, dsvars, cfvars, tvars, mvars>>

ext_Status == <<nvars, cvars, clvars, dsvars, cfvars, tvars, mvars>>

ext_Client == <<nvars, cvars, svars, dsvars, cfvars, tvars, mvars>>

ext_Dataset == <<nvars, cvars, svars, clvars, cfvars, tvars, mvars>>

ext_Config == <<nvars, cvars, svars, clvars, dsvars, tvars, mvars>>

ext_Datetime == <<nvars, cvars, svars, clvars, dsvars, cfvars, mvars>>

ext_Mgmt == <<nvars, cvars, svars, clvars, dsvars, cfvars, tvars>>

ext_Client_Dataset == <<nvars, cvars, svars, cfvars, tvars, mvars>>

\* every component but the named ones is idle
ExtIdle(cs) ==
    /\ ("Normalize" \in cs \/ NormalizeIdle)
    /\ ("Calls" \in cs \/ CallsIdle)
    /\ ("Status" \in cs \/ StatusIdle)
    /\ ("Client" \in cs \/ ClientIdle)
    /\ ("Dataset" \in cs \/ DatasetIdle)
    /\ ("Config" \in cs \/ ConfigIdle)
    /\ ("Datetime" \in cs \/ DatetimeIdle)
    /\ ("Mgmt" \in cs \/ MgmtIdle)

\* --------------------------------------------------------- all variables
vars == <<dvars, uvars, ext>>

Locals ==
    [hit_header |-> hit_header, year |-> year, f |-> f, header_dict |-> header_dict,
     year_in_sec |-> year_in_sec, unpacked_data |-> unpacked_data, i |-> i,
     pc |-> pc, err |-> err, result |-> result, log |-> log, parsed |-> parsed]

LocalsAre(n) ==
    /\ hit_header = n.hit_header
    /\ year = n.year
    /\ f = n.f
    /\ header_dict = n.header_dict
    /\ year_in_sec = n.year_in_sec
    /\ unpacked_data = n.unpacked_data
    /\ i = n.i
    /\ pc = n.pc
    /\ err = n.err
    /\ result = n.result
    /\ log = n.log
    /\ parsed = n.parsed

SetLocals(n) ==
    /\ hit_header' = n.hit_header
    /\ year' = n.year
    /\ f' = n.f
    /\ header_dict' = n.header_dict
    /\ year_in_sec' = n.year_in_sec
    /\ unpacked_data' = n.unpacked_data
    /\ i' = n.i
    /\ pc' = n.pc
    /\ err' = n.err
    /\ result' = n.result
    /\ log' = n.log
    /\ parsed' = n.parsed

\* no call of unpack_raw_data, no call of unescape
DecoderIdle ==
    /\ data = <<>> /\ lines = <<>> /\ k = 0
    /\ LocalsAre([InitLocals EXCEPT !.pc = "idle"])

UnescapeIdle == x = <<>> /\ escaped = <<>> /\ unescaped = <<>> /\ upc = "idle"

\* ----------------------------------------------------------------- inputs
\* raw lines as the server writes them (escaped, without the separator)
HdrA2020  == <<8, 1, 18, 1, 65, 24, 228, 15>>  \* SCALAR_SHORT, pvname "A", year 2020
HdrB2023  == <<8, 1, 18, 1, 66, 24, 231, 15>>  \* SCALAR_SHORT, pvname "B", year 2023
HdrBadTag == <<8, 15, 18, 1, 65, 24, 228, 15>> \* type tag 15: outside the table
Smp1      == <<8, 1, 24, 5>>                   \* secondsintoyear 1, val 5
SmpWs     == <<8, 3, 24, 32>>                  \* secondsintoyear 3, val 32
SmpEsc    == <<8, 27, 2, 24, 27>>              \* secondsintoyear 10 (escaped), val 27 (bare ESC)
Truncated == <<8>>                             \* a tag without its value
Blank     == <<>>

Vocabulary == {Blank, HdrA2020, HdrB2023, HdrBadTag, Smp1, SmpWs, SmpEsc, Truncated}

Buffers == {Join(ls) : ls \in UNION {[1..n -> Vocabulary] : n \in 0..MaxLines}}

Alphabet == {1, 2, 3, LF, CR, ESC, 65}

ByteStrings == UNION {[1..n -> Alphabet] : n \in 0..MaxLen}

\* ------------------------------------------------- unpack_raw_data: steps
Init ==
    /\ data \in Buffers
    /\ lines = <<>>
    /\ k = 0
    /\ LocalsAre([InitLocals EXCEPT !.pc = "call"])
    /\ UnescapeIdle
    /\ ExtIdle({})

\* data.split(b'\n'), line 52
SplitLines ==
    /\ pc = "call"
    /\ lines' = split(data)
    /\ k' = 1
    /\ pc' = "loop"
    /\ UNCHANGED <<data, hit_header, year, f, header_dict, year_in_sec,
                   unpacked_data, i, err, result, log, parsed, uvars, ext>>

\* an iteration on a line that is empty after strip(), lines 53-56
BlankLine ==
    /\ pc = "loop" /\ k <= Len(lines)
    /\ strip(lines[k]) = <<>>
    /\ SetLocals(LoopBody(Locals, lines[k]))
    /\ k' = k + 1
    /\ UNCHANGED <<data, lines, uvars, ext>>

\* an iteration on a non-blank line while hit_header is set, lines 58-68
HeaderLine ==
    /\ pc = "loop" /\ k <= Len(lines)
    /\ strip(lines[k]) # <<>>
    /\ hit_header
    /\ SetLocals(LoopBody(Locals, lines[k]))
    /\ k' = k + 1
    /\ UNCHANGED <<data, lines, uvars, ext>>

\* an iteration on a non-blank line while hit_header is clear, lines 58-77
DataLine ==
    /\ pc = "loop" /\ k <= Len(lines)
    /\ strip(lines[k]) # <<>>
    /\ ~ hit_header
    /\ SetLocals(LoopBody(Locals, lines[k]))
    /\ k' = k + 1
    /\ UNCHANGED <<data, lines, uvars, ext>>

\* the end of the loop, lines 78-79
Return ==
    /\ pc = "loop" /\ k > Len(lines)
    /\ SetLocals(ReturnStep(Locals))
    /\ UNCHANGED <<data, lines, k, uvars, ext>>

Next == SplitLines \/ BlankLine \/ HeaderLine \/ DataLine \/ Return

Spec == Init /\ [][Next]_vars

\* ------------------------------------------------------- unescape: steps
InitUnescape ==
    /\ x \in ByteStrings
    /\ escaped = <<>> /\ unescaped = <<>> /\ upc = "start"
    /\ DecoderIdle
    /\ ExtIdle({})

\* unescape(x)
CallUnescape ==
    /\ upc = "start"
    /\ unescaped' = unescape(x)
    /\ upc' = "unescaped"
    /\ UNCHANGED <<x, escaped, data, lines, k, locals, ext>>

\* the reference encoder writes x
CallEscape ==
    /\ upc = "start"
    /\ escaped' = escape(x)
    /\ upc' = "escaped"
    /\ UNCHANGED <<x, unescaped, data, lines, k, locals, ext>>

\* unescape(escape(x))
UnescapeEscaped ==
    /\ upc = "escaped"
    /\ unescaped' = unescape(escaped)
    /\ upc' = "roundtrip"
    /\ UNCHANGED <<x, escaped, data, lines, k, locals, ext>>

NextUnescape == CallUnescape \/ CallEscape \/ UnescapeEscaped

SpecUnescape == InitUnescape /\ [][NextUnescape]_vars

\* ------------------------------------------------------------ properties
\* the blocks of the input as the wire format defines them: one per header
\* line, each with the samples of the data lines up to the next header
RECURSIVE GroupBlocks(_, _, _)
GroupBlocks(es, blocks, hdr) ==
    IF es = <<>> THEN blocks
    ELSE IF es[1].kind = "header"
    THEN LET I == PayloadInfo_ParseFromString(es[1].bytes)
         IN  GroupBlocks(Tail(es),
                         Append(blocks, [meta |-> MakeHeaderDict(I), data |-> <<>>]), I)
    ELSE LET cls == SAMPLE_PARSER_MAP[PayloadTypeNames[hdr.type + 1]]
             m   == Sample_ParseFromString(NewMessage(cls), es[1].bytes).msg
         IN  GroupBlocks(Tail(es),
                         [blocks EXCEPT ![Len(blocks)].data =
                              Append(@, SampleDict(YearInSec(hdr.year), m))], hdr)

ExpectedBlocks == GroupBlocks(parsed, <<>>, PayloadInfo_ParseFromString(<<>>))

RECURSIVE AllData(_)
AllData(blocks) ==
    IF blocks = <<>> THEN <<>> ELSE blocks[1].data \o AllData(Tail(blocks))

Finished == pc \in {"returned", "raised"}

\* C1: a call that returns gives one (header, samples) pair per header line,
\* in input order, each with the samples of its own data lines
C1_OnePairPerHeader ==
    pc = "returned" => result = ExpectedBlocks

\* C2: a buffer of length zero, or of blank lines only, decodes to the
\* empty sequence of blocks and raises nothing
C2_EmptyBufferReturnsNoBlocks ==
    (Finished /\ \A j \in 1..Len(data) : data[j] = LF)
        => (pc = "returned" /\ result = <<>>)

\* a header line that cannot be decoded or whose tag is outside the table
BadHeader(e) ==
    /\ e.kind = "header"
    /\ LET I == PayloadInfo_ParseFromString(e.bytes)
       IN  (~ I.ok) \/ I.type \notin 0..14

\* C3: once a header line with a tag outside the 15-entry table, or one
\* that cannot be decoded, has been met, the call has failed with an error
\* and returns no block, whatever was decoded before
C3_BadHeaderFailsClosed ==
    (\E j \in DOMAIN parsed : BadHeader(parsed[j]))
        => (pc = "raised" /\ err # "" /\ result = <<>>)

\* a tag-15 header met after a block with a sample was decoded
C3_Witness ==
    /\ pc = "raised"
    /\ Len(unpacked_data) >= 1
    /\ Len(parsed) >= 3
    /\ BadHeader(parsed[Len(parsed)])
    /\ PayloadInfo_ParseFromString(parsed[Len(parsed)].bytes).type = 15
    /\ result = <<>>

\* C4: the bytes handed to a parser are unescape(raw) of the complete raw
\* line between two separators, and every non-empty raw line is handed over
C4_ParserGetsUnescapedRawLine ==
    /\ \A j \in DOMAIN parsed : parsed[j].bytes = unescape(parsed[j].raw)
    /\ pc \in {"loop", "returned"} =>
           Len(parsed) = Cardinality({j \in 1..(k - 1) : lines[j] # <<>>})

\* ls with n more empty lines in front of line j
InsertBlank(ls, j, n) ==
    SubSeq(ls, 1, j - 1) \o [m \in 1..n |-> <<>>] \o SubSeq(ls, j, Len(ls))

\* a place that already holds a blank line, or the start or end of the buffer
BlankPlace(ls, j) ==
    \/ j = 1
    \/ j = Len(ls) + 1
    \/ ls[j - 1] = <<>>
    \/ ls[j] = <<>>

\* C5: the outcome of a call equals the outcome for the same buffer with
\* more blank lines next to a blank line, at the start or at the end
C5_BlankLinesIdempotent ==
    Finished =>
        \A j \in 1..(Len(lines) + 1) : \A n \in 1..MaxInsert :
            BlankPlace(lines, j) =>
                Outcome(unpack_raw_data(Join(InsertBlank(lines, j, n))))
                    = [pc |-> pc, err |-> err, result |-> result]

\* a returned call on a buffer with a blank line between two blocks
C5_Witness ==
    /\ pc = "returned"
    /\ Len(unpacked_data) >= 1
    /\ \E j \in 2..(Len(lines) - 1) :
          lines[j] = <<>> /\ lines[j - 1] # <<>> /\ lines[j + 1] # <<>>

\* the positions of line at which an escape sequence starts
MatchStarts(line) ==
    {p \in 1..(Len(line) - 1) : line[p] = ESC /\ line[p + 1] \in {1, 2, 3}}

\* the literal byte an escape sequence ESC b stands for
Literal(b) == CASE b = 1 -> 27 [] b = 2 -> 10 [] b = 3 -> 13

\* where the byte at position p of line lands in the output
OutPos(line, p) == p - Cardinality({m \in MatchStarts(line) : m < p})

\* an ESC of line that starts no escape sequence
BareEsc(line, p) ==
    /\ line[p] = ESC
    /\ p = Len(line) \/ line[p + 1] \notin {1, 2, 3}

\* C6: the output is the input with each escape sequence replaced by its
\* literal and every other byte kept, in order; produced bytes are not
\* scanned again, so 1B 01 02 gives 1B 02
C6_LeftToRightNoRescan ==
    upc = "unescaped" =>
        /\ Len(unescaped) = Len(x) - Cardinality(MatchStarts(x))
        /\ \A p \in 1..Len(x) :
              (p - 1) \notin MatchStarts(x) =>
                  unescaped[OutPos(x, p)] =
                      IF p \in MatchStarts(x) THEN Literal(x[p + 1]) ELSE x[p]
        /\ x = <<27, 1, 2>> => unescaped = <<27, 2>>

C6_Witness ==
    upc = "unescaped" /\ x = <<27, 1, 2>> /\ unescaped = <<27, 2>>

\* C7: unescape(escape(x)) = x
C7_RoundTrip ==
    upc = "roundtrip" => unescaped = x

C7_Witness ==
    /\ upc = "roundtrip"
    /\ {ESC, LF, CR} \subseteq {x[p] : p \in 1..Len(x)}
    /\ escaped # x
    /\ unescaped = x

\* C8 as stated: a bare ESC and the byte after it are both in the output
\* unchanged, and a line without escape sequence is returned as it is
C8_BareEscAndNextByteKept ==
    upc = "unescaped" =>
        /\ \A p \in 1..Len(x) :
              BareEsc(x, p) =>
                  /\ OutPos(x, p) \in 1..Len(unescaped)
                  /\ unescaped[OutPos(x, p)] = ESC
                  /\ p < Len(x) =>
                        /\ OutPos(x, p) + 1 \in 1..Len(unescaped)
                        /\ unescaped[OutPos(x, p) + 1] = x[p + 1]
        /\ MatchStarts(x) = {} => unescaped = x

\* C8 amended: a bare ESC is in the output unchanged; the byte after it is
\* unchanged too unless it is an ESC that starts an escape sequence, which
\* is replaced by its literal; a line without escape sequence is unchanged
C8_BareEscKept ==
    upc = "unescaped" =>
        /\ \A p \in 1..Len(x) :
              BareEsc(x, p) =>
                  /\ OutPos(x, p) \in 1..Len(unescaped)
                  /\ unescaped[OutPos(x, p)] = ESC
                  /\ p < Len(x) =>
                        /\ OutPos(x, p) + 1 \in 1..Len(unescaped)
                        /\ unescaped[OutPos(x, p) + 1] =
                              IF (p + 1) \in MatchStarts(x)
                              THEN Literal(x[p + 2]) ELSE x[p + 1]
        /\ MatchStarts(x) = {} => unescaped = x

\* a bare ESC before an escape sequence, and a bare ESC at the end
C8_Witness ==
    upc = "unescaped" /\ x = <<27, 27, 2, 27>> /\ unescaped = <<27, 10, 27>>

\* a raw line with an ESC that starts no escape sequence
HasMalformedEscape(raw) == \E p \in 1..Len(raw) : BareEsc(raw, p)

\* C9: a line with a malformed escape sequence leaves a warning in the log
\* and the call goes on
C9_MalformedEscapeLogsWarning ==
    \A j \in DOMAIN parsed :
        (HasMalformedEscape(parsed[j].raw) /\ parsed[j].ok) =>
            /\ pc # "raised"
            /\ \E l \in DOMAIN log : log[l].level = "WARNING"

HeaderDecodeFailed ==
    /\ pc = "raised"
    /\ parsed # <<>>
    /\ parsed[Len(parsed)].kind = "header"
    /\ ~ PayloadInfo_ParseFromString(parsed[Len(parsed)].bytes).ok

\* the error that reaches the caller when a data line cannot be decoded
SampleDecodeError == unpack_raw_data(Join(<<HdrA2020, Truncated>>)).err

\* C11: a failure to decode a header line reaches the caller as an error of
\* another kind than a failure to decode a sample line
C11_HeaderAndSampleErrorsDiffer ==
    HeaderDecodeFailed => err # SampleDecodeError

\* line j of the buffer is empty after strip()
IsBlankLine(j) == strip(lines[j]) = <<>>

\* line j is a header line: the first line of the buffer or the line after
\* a blank line, when it is not blank itself
IsHeaderLine(j) == ~ IsBlankLine(j) /\ (j = 1 \/ IsBlankLine(j - 1))

IsDataLine(j) == ~ IsBlankLine(j) /\ ~ IsHeaderLine(j)

\* the header line that governs line j
HeaderOf(j) == CHOOSE h \in 1..j :
    IsHeaderLine(h) /\ \A g \in (h + 1)..j : ~ IsHeaderLine(g)

\* the sample that data line j stands for
SampleOfLine(j) ==
    LET I   == PayloadInfo_ParseFromString(unescape(strip(lines[HeaderOf(j)])))
        cls == get_sample_parser(I.type).cls
        m   == Sample_ParseFromString(NewMessage(cls), unescape(strip(lines[j]))).msg
    IN  SampleDict(YearInSec(I.year), m)

\* the samples of the data lines among lines j..n, in line order
RECURSIVE SamplesOfLines(_, _)
SamplesOfLines(j, n) ==
    IF j > n THEN <<>>
    ELSE IF IsDataLine(j) THEN <<SampleOfLine(j)>> \o SamplesOfLines(j + 1, n)
    ELSE SamplesOfLines(j + 1, n)

\* C13: the samples are kept in the order of their data lines, none
\* reordered, dropped or duplicated, and a call that returns gives as many
\* samples as the buffer has non-blank non-header lines
C13_SamplesInInputOrder ==
    /\ pc = "loop" => unpacked_data = SamplesOfLines(1, k - 1)
    /\ pc = "returned" =>
          /\ Len(result) = 1
          /\ result[1].data = SamplesOfLines(1, Len(lines))
          /\ Len(result[1].data) = Cardinality({j \in 1..Len(lines) : IsDataLine(j)})

\* a returned call whose samples have decreasing timestamps
C13_Witness ==
    /\ pc = "returned"
    /\ Len(result[1].data) >= 2
    /\ Earlier(result[1].data[2], result[1].data[1])

\* ------------------------------------------------------------- normalize
\* client.get_data on a raw response: normalize(unpack_raw_data(r.content),
\* tz, last_n=last_n).  A point in time is kept as days since the Epoch,
\* seconds and milliseconds, (days * 86400 + secs) * 1000 + millis.
Pow5_9 == 1953125

\* binary long division by 5^9: n more digits of rem / 5^9
RECURSIVE LongDiv(_, _, _)
LongDiv(quot, rem, n) ==
    IF n = 0 THEN [quot |-> quot, rem |-> rem]
    ELSE IF 2 * rem >= Pow5_9 THEN LongDiv(2 * quot + 1, 2 * rem - Pow5_9, n - 1)
    ELSE LongDiv(2 * quot, 2 * rem, n - 1)

\* t / m rounded to the nearest integer, a tie to the even one
RoundHalfEven(num, m) ==
    LET w  == num \div m
        fr == num % m
    IN  IF 2 * fr > m \/ (2 * fr = m /\ w % 2 = 1) THEN w + 1 ELSE w

\* d['secs'] + d['nanos'] / 1e9 in doubles, for 2^30 <= d['secs'] < 2^31 - 1:
\* the sum is rounded to a multiple of 2^-22; the value is its distance from
\* d['secs'] in units of 2^-22, nanos * 2^13 / 5^9 rounded (5^9 is odd: no tie)
FracOfSum(nanos) ==
    LET u == nanos \div Pow5_9
        d == LongDiv(0, nanos % Pow5_9, 13)
    IN  u * 8192 + d.quot + (IF 2 * d.rem > Pow5_9 THEN 1 ELSE 0)

\* (...) * 1e3 in doubles, for 2^40 <= 1000 * d['secs'] < 2^41 - 1000: the
\* product is rounded to a multiple of 2^-12; the value is its distance from
\* 1000 * d['secs'] in units of 2^-12
FracOfProduct(q) == RoundHalfEven(q * 125, 128)

\* the seconds for which the two roundings above are the ones of the doubles
\* (2004-11-04 to 2038-01-18)
InDoubleRange(secs) ==
    /\ secs.days \in 12726..24854
    /\ secs.secs \in 0..(367 * 86400)
    /\ secs.days * 86400 + secs.secs \in 1099511628..2147483645

\* pd.to_datetime(ms, unit='ms').tz_localize('UTC')
ToDatetime(ms) ==
    LET s == ms.secs + (ms.millis \div 1000)
    IN  [days |-> ms.days + (s \div 86400), secs |-> s % 86400,
         millis |-> ms.millis % 1000]

\* int((d['secs'] + d['nanos'] / 1e9) * 1e3), line 174
TsMillis(d) ==
    [days |-> d.secs.days, secs |-> d.secs.secs,
     millis |-> FracOfProduct(FracOfSum(d.nanos)) \div 4096]

SliceFrom_head(s, start) ==
    SubSeq(s, 1, IF - start < Len(s) THEN - start ELSE Len(s))

\* s[start:] of Python
SliceFrom(s, start) ==
    LET b == IF start < 0
             THEN (IF Len(s) + start > 0 THEN Len(s) + start ELSE 0)
             ELSE (IF start < Len(s) THEN start ELSE Len(s))
    IN  SubSeq(s, b + 1, Len(s))

None == [none |-> TRUE]

\* normalize(data, tz='UTC', last_n=n), lines 142-185: the frame as its
\* index and its three columns
normalize(dat, n) ==
    IF Len(dat) = 0 THEN None
    ELSE IF dat[1].data = <<>> THEN None
    ELSE LET rows == SliceFrom(dat[1].data, - n)
         IN  [none |-> FALSE,
              index |-> [j \in 1..Len(rows) |-> ToDatetime(TsMillis(rows[j]))],
              val |-> [j \in 1..Len(rows) |-> rows[j].val],
              status |-> [j \in 1..Len(rows) |-> rows[j].status],
              severity |-> [j \in 1..Len(rows) |-> rows[j].severity]]

\* the varint of the wire format
RECURSIVE Varint(_)
Varint(n) == IF n < 128 THEN <<n>> ELSE <<128 + (n % 128)>> \o Varint(n \div 128)

\* a header line and a data line as the server writes them
HeaderLineOf(y) == escape(<<8, 1, 18, 1, 65, 24>> \o Varint(y))

SampleLineOf(secs, nanos) ==
    escape(<<8>> \o Varint(secs) \o <<16>> \o Varint(nanos) \o <<24, 5>>)

NormalizeYears == {2020, 2023}

NormalizeSeconds == {0, 2}

NormalizeNanos == {0, 1000000, 500000000, 999999, 123456789, 999999999}

SampleLines == {SampleLineOf(s, n) : s \in NormalizeSeconds, n \in NormalizeNanos}

NormalizeBuffers ==
    {Join(<<HeaderLineOf(y)>> \o ls) :
        y \in NormalizeYears,
        ls \in UNION {[1..n -> SampleLines] : n \in 1..MaxSamples}}

InitNormalize ==
    /\ data \in NormalizeBuffers
    /\ lines = <<>>
    /\ k = 0
    /\ LocalsAre([InitLocals EXCEPT !.pc = "call"])
    /\ last_n \in 0..MaxLastN
    /\ df = <<>>
    /\ UnescapeIdle
    /\ ExtIdle({"Normalize"})

\* the call of normalize on the returned list, client.py line 129
Normalize ==
    /\ pc = "returned"
    /\ df = <<>>
    /\ \A j \in DOMAIN result[1].data : InDoubleRange(result[1].data[j].secs)
    /\ df' = <<normalize(result, last_n)>>
    /\ UNCHANGED <<dvars, uvars, last_n, ext_Normalize>>

NextNormalize == SplitLines \/ HeaderLine \/ DataLine \/ Return \/ Normalize

SpecNormalize == InitNormalize /\ [][NextNormalize]_vars

\* the point in time of the sample of data line j as the format defines
\* it, in whole milliseconds
MillisOfLine(j) ==
    LET I == PayloadInfo_ParseFromString(unescape(lines[HeaderOf(j)]))
        m == Sample_ParseFromString(NewMessage("ScalarShort"), unescape(lines[j])).msg
    IN  ToDatetime([days |-> DaysBeforeYear(I.year) - DaysBeforeYear(1970),
                    secs |-> m.secondsintoyear,
                    millis |-> m.nano \div 1000000])

\* the data lines of the buffer, in line order
DataLineIdx == SelectSeq([j \in 1..Len(lines) |-> j], IsDataLine)

\* C12: the timestamp of every row is the start of the year of its header
\* plus seconds_into_year plus nanos div 10^6 milliseconds; year 2020 with
\* 0 s, 0 ns is 2020-01-01T00:00:00.000Z and year 2023 with 2 s,
\* 500000000 ns is 2023-01-01T00:00:02.500Z
C12_TimestampInMillis ==
    (df # <<>> /\ ~ df[1].none) =>
        LET js == SliceFrom(DataLineIdx, - last_n)
        IN  /\ Len(df[1].index) = Len(js)
            /\ \A j \in DOMAIN js : df[1].index[j] = MillisOfLine(js[j])
            /\ (data = Join(<<HeaderLineOf(2020), SampleLineOf(0, 0)>>)
                  => df[1].index[1] = [days |-> 18262, secs |-> 0, millis |-> 0])
            /\ (data = Join(<<HeaderLineOf(2023), SampleLineOf(2, 500000000)>>)
                  => df[1].index[1] = [days |-> 19358, secs |-> 2, millis |-> 500])

\* the row of the frame made of payload d
RowOf(d) ==
    [time |-> ToDatetime(TsMillis(d)), val |-> d.val, status |-> d.status,
     severity |-> d.severity]

\* row j of frame fr
FrameRow(fr, j) ==
    [time |-> fr.index[j], val |-> fr.val[j], status |-> fr.status[j],
     severity |-> fr.severity[j]]

\* C21: with last_n = 0 the frame has one row per payload of the first
\* block; with last_n = n > 0 it has min(n, number of payloads) rows, the
\* last payloads in their original order
C21_LastNRows ==
    (df # <<>> /\ ~ df[1].none) =>
        LET payloads == result[1].data
            rows == IF last_n = 0 \/ last_n > Len(payloads)
                    THEN Len(payloads) ELSE last_n
        IN  /\ Len(df[1].index) = rows
            /\ Len(df[1].val) = rows
            /\ \A j \in 1..rows :
                   FrameRow(df[1], j) = RowOf(payloads[Len(payloads) - rows + j])

\* two payloads at different times, last_n = 1: the frame is the later one
C21_Witness ==
    /\ df # <<>> /\ ~ df[1].none
    /\ last_n = 1
    /\ Len(result[1].data) = 2
    /\ result[1].data[1].secs # result[1].data[2].secs
    /\ Len(df[1].index) = 1
    /\ FrameRow(df[1], 1) = RowOf(result[1].data[2])

\* ------------------------------------------------------ concurrent calls
\* Several threads call unpack_raw_data, each on its own buffer.  All the
\* names of lines 49-79 are locals of the call; SAMPLE_PARSER_MAP is only
\* read.  A step of a thread is one statement group of its call; the steps
\* of the threads interleave in any order (one call after the other is one
\* of the orders).
Threads == {1, 2}

CallVocabulary == {Blank, HdrA2020, HdrB2023, Smp1}

CallBuffers ==
    {Join(ls) : ls \in UNION {[1..n -> CallVocabulary] : n \in 0..MaxCallLines}}

NewCall(buf) ==
    [data |-> buf, lines |-> <<>>, k |-> 0, mid |-> FALSE,
     s |-> [InitLocals EXCEPT !.pc = "call"]]

\* another thread is inside the loop of its call
OtherInLoop(cs, th) ==
    \E u \in DOMAIN cs : u # th /\ cs[u].s.pc = "loop" /\ cs[u].k > 1

\* one iteration with hit_header kept in a module-level name
CallIteration_shared(cs, th) ==
    LET n == LoopBody(cs[th].s, cs[th].lines[cs[th].k])
    IN  [u \in DOMAIN cs |->
            IF u = th
            THEN [cs[u] EXCEPT !.s = n, !.k = @ + 1,
                               !.mid = @ \/ OtherInLoop(cs, th)]
            ELSE [cs[u] EXCEPT !.s.hit_header = n.hit_header]]

\* one iteration of the for loop of thread th, lines 52-77
CallIteration(cs, th) ==
    [cs EXCEPT ![th].s = LoopBody(@, cs[th].lines[cs[th].k]),
               ![th].k = @ + 1,
               ![th].mid = @ \/ OtherInLoop(cs, th)]

InitCalls ==
    /\ calls \in [Threads -> {NewCall(b) : b \in CallBuffers}]
    /\ DecoderIdle
    /\ UnescapeIdle
    /\ ExtIdle({"Calls"})

\* thread th: data.split(b'\n'), line 52
CallSplit(th) ==
    /\ calls[th].s.pc = "call"
    /\ calls' = [calls EXCEPT ![th].lines = split(calls[th].data),
                              ![th].k = 1,
                              ![th].s.pc = "loop"]
    /\ UNCHANGED <<dvars, uvars, ext_Calls>>

\* thread th: one iteration, lines 53-77
CallLine(th) ==
    /\ calls[th].s.pc = "loop" /\ calls[th].k <= Len(calls[th].lines)
    /\ calls' = CallIteration(calls, th)
    /\ UNCHANGED <<dvars, uvars, ext_Calls>>

\* thread th: the end of the loop, lines 78-79
CallReturn(th) ==
    /\ calls[th].s.pc = "loop" /\ calls[th].k > Len(calls[th].lines)
    /\ calls' = [calls EXCEPT ![th].s = ReturnStep(@)]
    /\ UNCHANGED <<dvars, uvars, ext_Calls>>

NextCalls == \E th \in Threads : CallSplit(th) \/ CallLine(th) \/ CallReturn(th)

SpecCalls == InitCalls /\ [][NextCalls]_vars

CallFinished(th) == calls[th].s.pc \in {"returned", "raised"}

\* C14: a call that is run together with other calls, in any interleaving,
\* ends as the isolated call on its buffer ends: the same returned list or
\* the same exception
C14_CallsAreIsolated ==
    \A th \in DOMAIN calls :
        CallFinished(th) =>
            Outcome(calls[th].s) = Outcome(unpack_raw_data(calls[th].data))

\* two finished calls on different buffers whose iterations interleaved,
\* one returned with a sample and the other raised
C14_Witness ==
    /\ calls # <<>>
    /\ \A th \in Threads : CallFinished(th) /\ calls[th].mid
    /\ calls[1].data # calls[2].data
    /\ calls[1].s.pc = "returned" /\ calls[1].s.result[1].data # <<>>
    /\ calls[1].s.year = <<2020>>
    /\ calls[2].s.pc = "raised"

\* ------------------------------------------------------- the sample types
\* unpack_raw_data on buffers with a header of each of the 15 sample types
HeaderOfType(tag) == escape(<<8, tag, 18, 1, 65, 24, 228, 15>>)

SmpTwoVals == <<8, 2, 24, 5, 24, 6>>     \* secondsintoyear 2, val 5 and val 6
SmpString  == <<8, 3, 26, 1, 65>>        \* secondsintoyear 3, val "A"

TypeSamples == {Smp1, SmpTwoVals, SmpString}

TypeBuffers ==
    {Join(<<HeaderOfType(tag)>> \o ls) :
        tag \in 0..(Len(PayloadTypeNames) - 1),
        ls \in UNION {[1..n -> TypeSamples] : n \in 1..MaxTypeLines}}
    \cup
    {Join(<<HeaderOfType(a), s1, Blank, HeaderOfType(b), s2>>) :
        a \in {1, 12}, b \in {1, 12}, s1 \in TypeSamples, s2 \in TypeSamples}

InitTypes ==
    /\ data \in TypeBuffers
    /\ lines = <<>>
    /\ k = 0
    /\ LocalsAre([InitLocals EXCEPT !.pc = "call"])
    /\ UnescapeIdle
    /\ ExtIdle({})

SpecTypes == InitTypes /\ [][Next]_vars

ScalarTags ==
    {"SCALAR_STRING", "SCALAR_SHORT", "SCALAR_FLOAT", "SCALAR_ENUM", "SCALAR_BYTE",
     "SCALAR_INT", "SCALAR_DOUBLE"}

WaveformTags ==
    {"WAVEFORM_STRING", "WAVEFORM_SHORT", "WAVEFORM_FLOAT", "WAVEFORM_ENUM",
     "WAVEFORM_BYTE", "WAVEFORM_INT", "WAVEFORM_DOUBLE"}

\* the name of the tag that the header of line j declares
TagOfLine(j) ==
    PayloadTypeNames[PayloadInfo_ParseFromString(unescape(strip(lines[HeaderOf(j)]))).type + 1]

\* C15: the table has one parser for each of the 15 tags and no parser for
\* two tags; the parser in use and the value of every sample are the ones of
\* the tag that the header of the block declares: one value under a scalar
\* tag, a sequence of values under a waveform tag
C15_HeaderTagSelectsParser ==
    /\ DOMAIN SAMPLE_PARSER_MAP = {PayloadTypeNames[j] : j \in 1..Len(PayloadTypeNames)}
    /\ Cardinality(DOMAIN SAMPLE_PARSER_MAP) = 15
    /\ \A a, b \in DOMAIN SAMPLE_PARSER_MAP :
          SAMPLE_PARSER_MAP[a] = SAMPLE_PARSER_MAP[b] => a = b
    /\ (pc = "loop" /\ k > 1 /\ ~ hit_header) =>
          f[1].cls = SAMPLE_PARSER_MAP[TagOfLine(k - 1)]
    /\ \A n \in DOMAIN unpacked_data :
          LET j   == DataLineIdx[n]
              tag == TagOfLine(j)
              v   == unpacked_data[n].val
          IN  /\ v = SampleVal(SAMPLE_PARSER_MAP[tag],
                               ParseFields(unescape(strip(lines[j])), 1).fields)
              /\ tag \in ScalarTags => v.shape \in {"scalar", "string"}
              /\ tag \in WaveformTags => v.shape \in {"sequence", "string_sequence"}

\* a returned call with a SCALAR_SHORT block of one value 5 and a
\* WAVEFORM_INT block of the values 5, 6
C15_Witness ==
    /\ pc = "returned"
    /\ Len(unpacked_data) = 2
    /\ Len(lines) = 5
    /\ TagOfLine(2) = "SCALAR_SHORT" /\ TagOfLine(5) = "WAVEFORM_INT"
    /\ unpacked_data[1].val = [shape |-> "scalar", items |-> <<5>>]
    /\ unpacked_data[2].val = [shape |-> "sequence", items |-> <<5, 6>>]

\* ------------------------------------------------- contrib get_pv_status
PVNames == {"A", "B", "C"}

AnyPV == "*"

StatusValues == {"Being archived", "Not being archived"}

\* getPVStatus?pv=p of the archiver: one entry per PV that p names
StatusResponse(srv, p) ==
    LET names == IF p = AnyPV THEN DOMAIN srv ELSE {p} \cap DOMAIN srv
    IN  [n \in names |-> srv[n]]

\* [client.get_pv_status(i)[i].status for i in pv], contrib/mgmt.py line 29
StatusList(srv, ps) ==
    [j \in 1..Len(ps) |->
        IF ps[j] \in DOMAIN StatusResponse(srv, ps[j])
        THEN StatusResponse(srv, ps[j])[ps[j]] ELSE "KeyError"]

\* get_pv_status(pv, client), contrib/mgmt.py lines 25-33
get_pv_status(srv, p) ==
    LET ps  == p.items      \* a str becomes the tuple of itself, lines 27-28
        sts == StatusList(srv, ps)
    IN  IF \E j \in DOMAIN sts : sts[j] = "KeyError" THEN Raised("KeyError")
        ELSE IF Len(ps) = 1 THEN StrValue(sts[1])
        ELSE ListValue(sts)

PvArguments ==
    {StrValue(s) : s \in PVNames \cup {AnyPV}}
    \cup {ListValue(ss) : ss \in UNION {[1..n -> PVNames \cup {AnyPV}] : n \in 0..MaxPvs}}

InitStatus ==
    /\ pv \in PvArguments
    /\ pvstatus \in [PVNames -> StatusValues]
    /\ status_r = NoValue
    /\ DecoderIdle
    /\ UnescapeIdle
    /\ ExtIdle({"Status"})

\* one call of get_pv_status(pv)
GetPvStatus ==
    /\ status_r = NoValue
    /\ status_r' = get_pv_status(pvstatus, pv)
    /\ UNCHANGED <<dvars, uvars, pv, pvstatus, ext_Status>>

NextStatus == GetPvStatus

SpecStatus == InitStatus /\ [][NextStatus]_vars

\* C16: the returned value has the shape of the argument: a status string
\* for a str, and for a list of any length, 1 included, a list with the
\* status of every PV of the list in its order
C16_SameShapeAsInput ==
    status_r.shape # "none" =>
        /\ status_r.shape = pv.shape
        /\ Len(status_r.items) = Len(pv.items)
        /\ \A j \in DOMAIN pv.items : status_r.items[j] = pvstatus[pv.items[j]]

\* ---------------------------------------------------- ArchiverDataClient
\* The client keeps [base, path, format] in _url_config; url and format are
\* properties over it.  An optional str is <<>> for None and <<s>> for s.
DataPath == "/retrieval/data/getData."

UrlValues == {"http://127.0.0.1:17665", "http://192.168.0.100"}

FormatValues == {"raw", "json", "RAW", "JSON", "Json", "csv"}

Optional(S) == {<<>>} \cup {<<s>> : s \in S}

\* str.lower() on the format values
lower(s) ==
    CASE s \in {"raw", "RAW"} -> "raw"
      [] s \in {"json", "JSON", "Json"} -> "json"
      [] OTHER -> s

\* a format setter that stores the value as given
set_format_asgiven(cfg, site_format, fmt) ==
    IF fmt = <<>> THEN [cfg EXCEPT ![3] = site_format]
    ELSE [cfg EXCEPT ![3] = fmt[1]]

\* the setter of format, lines 51-56
set_format(cfg, site_format, fmt) ==
    IF fmt = <<>> THEN [cfg EXCEPT ![3] = site_format]
    ELSE [cfg EXCEPT ![3] = lower(fmt[1])]

\* the setter of url, lines 62-67
set_url(cfg, site_url, url) ==
    IF url = <<>> THEN [cfg EXCEPT ![1] = site_url]
    ELSE [cfg EXCEPT ![1] = url[1]]

\* the getter of url, lines 58-60
get_url(cfg) == cfg[1] \o cfg[2] \o cfg[3]

\* the getter of format, lines 45-49
get_format(cfg) == cfg[3]

\* ArchiverDataClient(url, format=fmt), lines 38-41
NewClient(site_url, site_format, url, fmt) ==
    set_format(set_url(<<site_url, DataPath, site_format>>, site_url, url),
               site_format, fmt)

InitClient ==
    /\ SITE_DATA_URL = "http://127.0.0.1:17665"
    /\ SITE_DATA_FORMAT \in {"raw", "json"}
    /\ url_config = <<>>
    /\ assigned = <<>>
    /\ url_read = ""
    /\ DecoderIdle
    /\ UnescapeIdle
    /\ ExtIdle({"Client"})

\* client = ArchiverDataClient(url, format=fmt)
Construct(url, fmt) ==
    /\ url_config = <<>>
    /\ url_config' = NewClient(SITE_DATA_URL, SITE_DATA_FORMAT, url, fmt)
    /\ assigned' = [url |-> url, format |-> fmt]
    /\ UNCHANGED <<dvars, uvars, SITE_DATA_URL, SITE_DATA_FORMAT, url_read, ext_Client>>

\* client.url = url
SetUrl(url) ==
    /\ url_config # <<>>
    /\ url_config' = set_url(url_config, SITE_DATA_URL, url)
    /\ assigned' = [assigned EXCEPT !.url = url]
    /\ UNCHANGED <<dvars, uvars, SITE_DATA_URL, SITE_DATA_FORMAT, url_read, ext_Client>>

\* client.format = fmt
SetFormat(fmt) ==
    /\ url_config # <<>>
    /\ url_config' = set_format(url_config, SITE_DATA_FORMAT, fmt)
    /\ assigned' = [assigned EXCEPT !.format = fmt]
    /\ UNCHANGED <<dvars, uvars, SITE_DATA_URL, SITE_DATA_FORMAT, url_read, ext_Client>>

\* reading client.url
GetUrl ==
    /\ url_config # <<>>
    /\ url_read' = get_url(url_config)
    /\ UNCHANGED <<dvars, uvars, SITE_DATA_URL, SITE_DATA_FORMAT, url_config,
                   assigned, ext_Client>>

NextClient ==
    \/ \E url \in Optional(UrlValues), fmt \in Optional(FormatValues) : Construct(url, fmt)
    \/ \E url \in Optional(UrlValues) : SetUrl(url)
    \/ \E fmt \in Optional(FormatValues) : SetFormat(fmt)
    \/ GetUrl

SpecClient == InitClient /\ [][NextClient]_vars

\* the url that the assignments made so far call for
ExpectedUrl(a) ==
    (IF a.url = <<>> THEN SITE_DATA_URL ELSE a.url[1])
        \o "/retrieval/data/getData." \o
    (IF a.format = <<>> THEN SITE_DATA_FORMAT
     ELSE CASE a.format[1] = "RAW" -> "raw"
            [] a.format[1] \in {"JSON", "Json"} -> "json"
            [] OTHER -> a.format[1])

\* C19: after every assignment to url or format, and at every read,
\* client.url is base + '/retrieval/data/getData.' + format for the last
\* assigned base and the lower-cased last assigned format (the site values
\* for None); an assignment to the one leaves the other as it was
C19_UrlFollowsAssignments ==
    [][/\ url_config' # <<>> => get_url(url_config') = ExpectedUrl(assigned')
       /\ url_read' # url_read => url_read' = ExpectedUrl(assigned)
       /\ (url_config # <<>> /\ assigned'.format # assigned.format)
             => url_config'[1] = url_config[1]
       /\ (url_config # <<>> /\ assigned'.url # assigned.url)
             => url_config'[3] = url_config[3]]_vars

\* the url read after url and format were both assigned, the format in
\* upper case
C19_Witness ==
    /\ assigned # <<>>
    /\ assigned.url = <<"http://192.168.0.100">>
    /\ assigned.format = <<"JSON">>
    /\ url_read = "http://192.168.0.100/retrieval/data/getData.json"

\* ------------------------------------------ contrib get_dataset_with_pvs
\* The archiver holds, per PV, samples at some seconds of the year 2020.
\* A frame is kept as its index, the set of the points in time of its rows.
DsPVs == {"A", "B"}

PvLists == {<<"A">>, <<"B">>, <<"A", "B">>, <<"B", "A">>}

\* the elements of a set of integers in ascending order
RECURSIVE SortedSeq(_)
SortedSeq(S) ==
    IF S = {} THEN <<>>
    ELSE LET m == CHOOSE a \in S : \A b \in S : a <= b
         IN  <<m>> \o SortedSeq(S \ {m})

\* the body of the response to getData.raw: the header line of the year
\* and one line per sample
RawResponse(ts) ==
    Join(<<HeaderLineOf(2020)>> \o [j \in 1..Len(ts) |-> SampleLineOf(ts[j], 0)])

\* r.json() of the response to getData.json: the same samples
JsonResponse(ts) == unpack_raw_data(RawResponse(ts)).result

\* ArchiverDataClient.get_data(pv, last_n=n), lines 113-136; the archiver
\* answers 404 for a PV without samples
get_data(cfg, arc, p, n) ==
    LET ts == SortedSeq(arc[p])
    IN  IF ts = <<>> THEN None
        ELSE IF get_format(cfg) = "raw"
        THEN normalize(unpack_raw_data(RawResponse(ts)).result, n)
        ELSE IF get_format(cfg) = "json" THEN normalize(JsonResponse(ts), n)
        ELSE None

\* _get_data(pv, from_time, to_time, client, use_json), contrib/data.py
\* lines 20-47: the client after the call, the request made and (r, reason)
get_data_of_pv(cfg, site_format, arc, p, use_json) ==
    LET cfg1 == IF use_json THEN set_format(cfg, site_format, <<"JSON">>) ELSE cfg
        Pulled(frame) ==
            [cfg |-> cfg1,
             request |-> [pv |-> p, format |-> get_format(cfg1), use_json |-> use_json],
             r |-> IF frame.none THEN None
                   ELSE [none |-> FALSE, column |-> p,
                         index |-> {frame.index[j] : j \in DOMAIN frame.index}],
             reason |-> IF frame.none THEN "NotExist"
                        ELSE IF Len(frame.index) = 1 THEN "SingleEntry" ELSE "OK"]
    IN  Pulled(get_data(cfg1, arc, p, 0))

\* the loop of lines 123-134
RECURSIVE PullAll(_, _, _, _, _, _, _)
PullAll(cfg, site_format, arc, pvs, use_json, df_list, reqs) ==
    IF pvs = <<>> THEN [cfg |-> cfg, df_list |-> df_list, sent |-> reqs]
    ELSE LET Rest(g) ==
                 PullAll(g.cfg, site_format, arc, Tail(pvs), use_json,
                         IF g.reason = "NotExist" THEN df_list ELSE Append(df_list, g.r),
                         Append(reqs, g.request))
         IN  Rest(get_data_of_pv(cfg, site_format, arc, pvs[1], use_json))

\* df_list[0].join(df_list[1:], how='outer'), line 138
OuterJoin(df_list) ==
    [none |-> FALSE,
     columns |-> [j \in 1..Len(df_list) |-> df_list[j].column],
     index |-> UNION {df_list[j].index : j \in 1..Len(df_list)},
     own |-> [p \in {df_list[j].column : j \in 1..Len(df_list)} |->
                df_list[CHOOSE j \in 1..Len(df_list) : df_list[j].column = p].index]]

get_dataset_with_pvs_all(cfg, site_format, arc, pv_list, kws) ==
    LET Joined(g) ==
            [cfg |-> g.cfg, sent |-> g.sent,
             r |-> IF Len(g.df_list) < Len(pv_list) THEN None
                   ELSE OuterJoin(g.df_list)]
    IN  Joined(PullAll(cfg, site_format, arc, pv_list, kws.use_json, <<>>, <<>>))

\* get_dataset_with_pvs(pv_list, from_time, to_time, client=client, **kws),
\* lines 111-148, without resampling: of kws only use_json is read
get_dataset_with_pvs(cfg, site_format, arc, pv_list, kws) ==
    LET Joined(g) ==
            [cfg |-> g.cfg, sent |-> g.sent,
             r |-> IF g.df_list = <<>> THEN None ELSE OuterJoin(g.df_list)]
    IN  Joined(PullAll(cfg, site_format, arc, pv_list, kws.use_json, <<>>, <<>>))

InitDataset ==
    /\ SITE_DATA_URL = "http://127.0.0.1:17665"
    /\ SITE_DATA_FORMAT = "raw"
    /\ url_config = NewClient(SITE_DATA_URL, SITE_DATA_FORMAT, <<>>, <<>>)
    /\ assigned = [url |-> <<>>, format |-> <<>>]
    /\ url_read = ""
    /\ archive \in [DsPVs -> SUBSET (1..MaxTime)]
    /\ sent = <<>>
    /\ dset = <<>>
    /\ ncalls = 0
    /\ args = <<>>
    /\ DecoderIdle
    /\ UnescapeIdle
    /\ ExtIdle({"Client", "Dataset"})

\* one call of get_dataset_with_pvs(pv_list, client=client, use_json=use_json)
GetDataset(pv_list, use_json) ==
    /\ ncalls < MaxDatasetCalls
    /\ LET Returned(g) ==
               /\ url_config' = g.cfg
               /\ sent' = sent \o g.sent
               /\ dset' = <<g.r>>
       IN  Returned(get_dataset_with_pvs(url_config, SITE_DATA_FORMAT, archive, pv_list,
                                         [use_json |-> use_json]))
    /\ assigned' = IF use_json THEN [assigned EXCEPT !.format = <<"JSON">>] ELSE assigned
    /\ ncalls' = ncalls + 1
    /\ UNCHANGED <<dvars, uvars, SITE_DATA_URL, SITE_DATA_FORMAT, url_read, archive,
                   args, ext_Client_Dataset>>

NextDataset == \E pv_list \in PvLists, use_json \in BOOLEAN : GetDataset(pv_list, use_json)

SpecDataset == InitDataset /\ [][NextDataset]_vars

\* C18: every request of a call with use_json is for JSON and every request
\* of a call without it is for RAW, whatever was called before
C18_FormatFollowsUseJson ==
    \A j \in DOMAIN sent :
        sent[j].format = IF sent[j].use_json THEN "json" ELSE "raw"

\* the points in time of the samples the archiver holds of PV p
SamplesOf(p) == {[days |-> 18262, secs |-> ts, millis |-> 0] : ts \in archive[p]}

\* the PVs of pv_list the archiver holds samples of, in the order of pv_list
Retrieved(pv_list) == SelectSeq(pv_list, LAMBDA p : archive[p] # {})

\* what a call with pv_list is to return
ExpectedDataset(pv_list, r) ==
    IF Retrieved(pv_list) = <<>> THEN r.none
    ELSE /\ ~ r.none
         /\ r.columns = Retrieved(pv_list)
         /\ \A j \in DOMAIN r.columns : r.own[r.columns[j]] = SamplesOf(r.columns[j])
         /\ r.index = UNION {SamplesOf(pv_list[j]) : j \in DOMAIN pv_list}

GetArgs ==
    [pv_list : PvLists, use_json : BOOLEAN, last_n : 0..MaxLastN]

InitGet ==
    /\ SITE_DATA_URL = "http://127.0.0.1:17665"
    /\ SITE_DATA_FORMAT \in {"raw", "json"}
    /\ url_config = <<>>
    /\ assigned = <<>>
    /\ url_read = ""
    /\ archive \in [DsPVs -> SUBSET (1..MaxTime)]
    /\ sent = <<>>
    /\ dset = <<>>
    /\ ncalls = 0
    /\ args \in {<<a>> : a \in GetArgs}
    /\ DecoderIdle
    /\ UnescapeIdle
    /\ ExtIdle({"Client", "Dataset"})

\* the run of the script: the client of lines 153-158, then the dataset of
\* lines 162-164, which is printed or exported (None: exit 1)
RunGet ==
    /\ dset = <<>>
    /\ LET fmt    == IF args[1].use_json THEN <<"json">> ELSE <<>>
           client == IF args[1].use_json
                     THEN set_format(NewClient(SITE_DATA_URL, SITE_DATA_FORMAT, <<>>, <<>>),
                                     SITE_DATA_FORMAT, fmt)
                     ELSE NewClient(SITE_DATA_URL, SITE_DATA_FORMAT, <<>>, <<>>)
           Output(g) ==
               /\ url_config' = g.cfg
               /\ assigned' = [url |-> <<>>, format |-> fmt]
               /\ sent' = g.sent
               /\ dset' = <<g.r>>
       IN  Output(get_dataset_with_pvs(client, SITE_DATA_FORMAT, archive,
                                       args[1].pv_list,
                                       [use_json |-> FALSE, last_n |-> args[1].last_n]))
    /\ ncalls' = ncalls + 1
    /\ UNCHANGED <<dvars, uvars, SITE_DATA_URL, SITE_DATA_FORMAT, url_read, archive,
                   args, ext_Client_Dataset>>

NextGet == RunGet

SpecGet == InitGet /\ [][NextGet]_vars

\* the points in time of the n latest samples of PV p in the archiver
LatestOf(p, n) ==
    {[days |-> 18262, secs |-> ts, millis |-> 0] :
        ts \in {a \in archive[p] : Cardinality({b \in archive[p] : b > a}) < n}}

\* C17: with --last-n N, N > 0, the dataset that is output holds of every
\* PV at most its N latest samples
C17_LastNLimitsDataset ==
    (args # <<>> /\ dset # <<>>) =>
        ((args[1].last_n > 0 /\ ~ dset[1].none) =>
            \A p \in DOMAIN dset[1].own :
                /\ dset[1].own[p] \subseteq LatestOf(p, args[1].last_n)
                /\ Cardinality(dset[1].own[p]) <= args[1].last_n)

\* -------------------------------------------------------- get_config_path
\* A path is the sequence of its parts; "/" is the root and "~" the home
\* directory of the user.  Path('') has no parts.
HomeDir == <<"/", "home", "user">>

\* Path.expanduser()
expanduser(p) ==
    IF p # <<>> /\ p[1] = "~" THEN HomeDir \o Tail(p) ELSE p

HomeConfig == <<"~", ".pyarchappl", "config.ini">>

EtcConfig == <<"/", "etc", "pyarchappl", "config.ini">>

\* _cwdir.joinpath("default.ini")
DefaultConfig == <<"/", "site-packages", "archappl", "config", "default.ini">>

\* Path.is_file()
is_file(fs, p) == p \in fs

\* a search that looks at the files before the environment
get_config_path_filesfirst(env_config_path, fs) ==
    IF is_file(fs, expanduser(HomeConfig)) THEN expanduser(HomeConfig)
    ELSE IF is_file(fs, EtcConfig) THEN EtcConfig
    ELSE IF env_config_path # <<>> THEN expanduser(env_config_path[1])
    ELSE DefaultConfig

\* get_config_path(), lines 76-85
get_config_path(env_config_path, fs) ==
    IF env_config_path # <<>> THEN expanduser(env_config_path[1])
    ELSE IF is_file(fs, expanduser(HomeConfig)) THEN expanduser(HomeConfig)
    ELSE IF is_file(fs, EtcConfig) THEN EtcConfig
    ELSE DefaultConfig

\* values of PYARCHAPPL_CONFIG_FILE
EnvPaths ==
    {<<>>, <<"~", "site.ini">>, <<"/", "opt", "site.ini">>, <<"/", "nowhere.ini">>,
     HomeConfig, EtcConfig}

\* the paths that may be files
FilePaths ==
    {expanduser(HomeConfig), EtcConfig, <<"/", "opt", "site.ini">>,
     expanduser(<<"~", "site.ini">>)}

InitConfig ==
    /\ environ = <<>>
    /\ files = {}
    /\ config_path = <<>>
    /\ DecoderIdle
    /\ UnescapeIdle
    /\ ExtIdle({"Config"})

\* os.environ[ENV_CONFIG_PATH_NAME] = p, before archappl.config is imported
SetEnv(p) ==
    /\ config_path = <<>>
    /\ environ' = <<p>>
    /\ UNCHANGED <<dvars, uvars, files, config_path, ext_Config>>

\* del os.environ[ENV_CONFIG_PATH_NAME]
UnsetEnv ==
    /\ config_path = <<>>
    /\ environ # <<>>
    /\ environ' = <<>>
    /\ UNCHANGED <<dvars, uvars, files, config_path, ext_Config>>

\* a configuration file is written
CreateFile(p) ==
    /\ config_path = <<>>
    /\ p \notin files
    /\ files' = files \cup {p}
    /\ UNCHANGED <<dvars, uvars, environ, config_path, ext_Config>>

\* a configuration file is removed
RemoveFile(p) ==
    /\ config_path = <<>>
    /\ p \in files
    /\ files' = files \ {p}
    /\ UNCHANGED <<dvars, uvars, environ, config_path, ext_Config>>

\* config_path = get_config_path(), line 87, at the import of the module
GetConfigPath ==
    /\ config_path = <<>>
    /\ config_path' = <<get_config_path(environ, files)>>
    /\ UNCHANGED <<dvars, uvars, environ, files, ext_Config>>

NextConfig ==
    \/ \E p \in EnvPaths : SetEnv(p)
    \/ UnsetEnv
    \/ \E p \in FilePaths : CreateFile(p)
    \/ \E p \in FilePaths : RemoveFile(p)
    \/ GetConfigPath

SpecConfig == InitConfig /\ [][NextConfig]_vars

HomeConfigFile == <<"/", "home", "user", ".pyarchappl", "config.ini">>

\* C20: the returned path is the one of the environment variable when the
\* variable is set, whatever files exist; else ~/.pyarchappl/config.ini
\* when it is a file; else /etc/pyarchappl/config.ini when it is a file;
\* else the packaged default.ini
C20_ConfigPathPriority ==
    config_path # <<>> =>
        /\ environ # <<>> =>
              config_path[1] = (IF environ[1] # <<>> /\ environ[1][1] = "~"
                                THEN <<"/", "home", "user">> \o Tail(environ[1])
                                ELSE environ[1])
        /\ (environ = <<>> /\ HomeConfigFile \in files) =>
              config_path[1] = HomeConfigFile
        /\ (environ = <<>> /\ HomeConfigFile \notin files /\ EtcConfig \in files) =>
              config_path[1] = <<"/", "etc", "pyarchappl", "config.ini">>
        /\ (environ = <<>> /\ HomeConfigFile \notin files /\ EtcConfig \notin files) =>
              config_path[1] = DefaultConfig

\* the variable is set to a path that is no file while both configuration
\* files exist, and its path is returned
C20_Witness ==
    /\ environ = << <<"/", "nowhere.ini">> >>
    /\ HomeConfigFile \in files
    /\ EtcConfig \in files
    /\ config_path = << <<"/", "nowhere.ini">> >>

\* ------------------------------------------- datetime_with_timezone, parse_dt
\* A datetime is kept as its wall clock in whole hours since
\* 2016-01-01T00:00, its minute, second and microsecond fields (sub), its
\* fold and its tzinfo: <<>> for None, <<key>> for ZoneInfo(key).  Instants
\* are hours since 2016-01-01T00:00Z.
UTC == "UTC"

NewYork == "America/New_York"

Tokyo == "Asia/Tokyo"

ZoneNames == {UTC, NewYork, Tokyo}

\* America/New_York in 2016: daylight saving time from 2016-03-13T07:00Z
\* (02:00 EST) to 2016-11-06T06:00Z (02:00 EDT)
DstStartUtc == 72 * 24 + 7

DstEndUtc == 310 * 24 + 6

StdOffset(zone) == IF zone = NewYork THEN -5 ELSE IF zone = Tokyo THEN 9 ELSE 0

DstOffset(zone) == IF zone = NewYork THEN -4 ELSE StdOffset(zone)

\* the offset of the zone at instant u
OffsetAtUtc(zone, u) ==
    IF u >= DstStartUtc /\ u < DstEndUtc THEN DstOffset(zone) ELSE StdOffset(zone)

\* d.utcoffset() of an aware datetime: of the instants whose wall clock in
\* the zone is d's, the earlier one for fold 0 and the later one for fold 1;
\* for a wall clock that is skipped, the offset before the transition for
\* fold 0 and the one after it for fold 1
utcoffset(d) ==
    LET zone == d.tz[1]
        std  == OffsetAtUtc(zone, d.wall - StdOffset(zone)) = StdOffset(zone)
        dst  == OffsetAtUtc(zone, d.wall - DstOffset(zone)) = DstOffset(zone)
    IN  IF std /\ dst THEN (IF d.fold = 0 THEN DstOffset(zone) ELSE StdOffset(zone))
        ELSE IF std THEN StdOffset(zone)
        ELSE IF dst THEN DstOffset(zone)
        ELSE (IF d.fold = 0 THEN StdOffset(zone) ELSE DstOffset(zone))

\* the instant an aware datetime denotes
Instant(d) == d.wall - utcoffset(d)

\* ZoneInfo(zone).fromutc: the datetime of instant u in the zone
fromutc(zone, u, sub) ==
    [wall |-> u + OffsetAtUtc(zone, u), sub |-> sub,
     fold |-> IF DstOffset(zone) # StdOffset(zone) /\ u = DstEndUtc THEN 1 ELSE 0,
     tz |-> <<zone>>]

\* d.astimezone(ZoneInfo(zone)); ZoneInfo(key) is one object per key, and
\* astimezone returns d itself for d's own tzinfo
astimezone(d, zone) ==
    IF d.tz = <<zone>> THEN d ELSE fromutc(zone, Instant(d), d.sub)

\* a - b of two aware datetimes, in hours: the wall clocks are subtracted
\* when both have the same tzinfo, the instants otherwise
Minus(a, b) == IF a.tz = b.tz THEN a.wall - b.wall ELSE Instant(a) - Instant(b)

datetime_with_timezone_replace(local, d, zone) ==
    [d EXCEPT !.tz = IF zone = <<>> THEN <<local>> ELSE zone]

\* datetime_with_timezone(date_time, time_zone), utils.py lines 183-195;
\* local is LOCAL_ZONE_NAME
datetime_with_timezone(local, d, zone) ==
    LET timezone == IF zone = <<>> THEN local ELSE zone[1]
    IN  IF d.tz # <<>>
        THEN (IF zone # <<>> THEN astimezone(d, timezone) ELSE d)
        ELSE [d EXCEPT !.tz = <<timezone>>]

\* the wall clocks up to MaxHours hours around the two transitions
WallHours ==
    {DstStartUtc - 5 + h : h \in (- MaxHours)..MaxHours}
        \cup {DstEndUtc - 5 + h : h \in (- MaxHours)..MaxHours}

SubFields ==
    {[minute |-> 0, second |-> 0, microsecond |-> 0],
     [minute |-> 12, second |-> 3, microsecond |-> 456789]}

Datetimes ==
    [wall : WallHours, sub : SubFields, fold : {0, 1},
     tz : {<<>>} \cup {<<z>> : z \in ZoneNames}]

InitDatetime ==
    /\ LOCAL_ZONE_NAME \in ZoneNames
    /\ date_time \in Datetimes
    /\ time_zone \in {<<>>} \cup {<<z>> : z \in ZoneNames}
    /\ dwt_r = <<>>
    /\ dt = <<>> /\ ref_datetime = <<>> /\ epoch = FALSE /\ parse_r = <<>>
    /\ DecoderIdle
    /\ UnescapeIdle
    /\ ExtIdle({"Datetime"})

\* the call datetime_with_timezone(date_time, time_zone)
DatetimeWithTimezone ==
    /\ dwt_r = <<>>
    /\ dwt_r' = <<datetime_with_timezone(LOCAL_ZONE_NAME, date_time, time_zone)>>
    /\ UNCHANGED <<dvars, uvars, LOCAL_ZONE_NAME, date_time, time_zone, dt,
                   ref_datetime, epoch, parse_r, ext_Datetime>>

NextDatetime == DatetimeWithTimezone

SpecDatetime == InitDatetime /\ [][NextDatetime]_vars

\* C23: for d without tzinfo the result has the fields of d and tzinfo z
\* (the local zone when z is None); for d with tzinfo and z given it denotes
\* the instant of d (difference 0) in zone z; for d with tzinfo and z None
\* it is d
C23_SetOrConvertZone ==
    dwt_r # <<>> =>
        LET r == dwt_r[1]
        IN  /\ date_time.tz = <<>> =>
                  /\ r.wall = date_time.wall /\ r.sub = date_time.sub
                  /\ r.tz = IF time_zone = <<>> THEN <<LOCAL_ZONE_NAME>> ELSE time_zone
            /\ (date_time.tz # <<>> /\ time_zone # <<>>) =>
                  /\ Instant(r) = Instant(date_time)
                  /\ Minus(r, date_time) = 0
                  /\ r.sub = date_time.sub
                  /\ r.tz = time_zone
            /\ (date_time.tz # <<>> /\ time_zone = <<>>) => r = date_time

\* 2016-11-05T23:00 in New York (daylight saving time) given as UTC:
\* 2016-11-06T03:00Z
C23_Witness ==
    /\ dwt_r # <<>>
    /\ date_time.tz = <<NewYork>> /\ date_time.wall = DstEndUtc - 5 - 2
    /\ time_zone = <<UTC>>
    /\ dwt_r[1].wall = date_time.wall + 4
    /\ dwt_r[1].tz = <<UTC>>

\* ---------------------------------------------------------------- parse_dt
\* The text dt is kept as its words; ',' is a word of its own.
\* time_unit_table, lines 279-287: the units that are whole hours
time_unit_table ==
    [unit \in {"hours", "hour", "days", "day"} |->
        IF unit \in {"hours", "hour"} THEN "hours" ELSE "days"]

\* the words of a text
Range(ws) == {ws[j] : j \in DOMAIN ws}

\* int(v) of a word
IsInt(v) == \E n \in 0..(2 * MaxDelta) : ToString(n) = v

int(v) == CHOOSE n \in 0..(2 * MaxDelta) : ToString(n) = v

\* dt.replace('after', '').replace('and', ',').replace('before', ',')
\* .replace('ago', ','), line 291
RECURSIVE ReplaceWords(_)
ReplaceWords(ws) ==
    IF ws = <<>> THEN <<>>
    ELSE IF ws[1] = "after" THEN ReplaceWords(Tail(ws))
    ELSE IF ws[1] \in {"and", "before", "ago"} THEN <<",">> \o ReplaceWords(Tail(ws))
    ELSE <<ws[1]>> \o ReplaceWords(Tail(ws))

\* .strip(' ,'), line 291
RECURSIVE StripCommas(_)
StripCommas(ws) ==
    IF ws = <<>> THEN <<>>
    ELSE IF ws[1] = "," THEN StripCommas(Tail(ws))
    ELSE IF ws[Len(ws)] = "," THEN StripCommas(SubSeq(ws, 1, Len(ws) - 1))
    ELSE ws

\* .split(','), line 291: part is the piece being read
RECURSIVE SplitCommas(_, _)
SplitCommas(ws, part) ==
    IF ws = <<>> THEN <<part>>
    ELSE IF ws[1] = "," THEN <<part>> \o SplitCommas(Tail(ws), <<>>)
    ELSE SplitCommas(Tail(ws), Append(part, ws[1]))

\* the loop of lines 292-294 over the parts: dt_dict, or the error raised
RECURSIVE ReadParts(_, _)
ReadParts(parts, dt_dict) ==
    IF parts = <<>> THEN [err |-> "", dt_dict |-> dt_dict]
    ELSE IF Len(parts[1]) # 2 THEN [err |-> "ValueError", dt_dict |-> dt_dict]
    ELSE IF parts[1][2] \notin DOMAIN time_unit_table
    THEN [err |-> "KeyError", dt_dict |-> dt_dict]
    ELSE IF ~ IsInt(parts[1][1]) THEN [err |-> "ValueError", dt_dict |-> dt_dict]
    ELSE ReadParts(Tail(parts),
                   [dt_dict EXCEPT ![time_unit_table[parts[1][2]]] = int(parts[1][1])])

\* relativedelta(**dt_dict) as whole hours, line 296
relativedelta(dt_dict) == 24 * dt_dict["days"] + dt_dict["hours"]

\* d + hours of an aware datetime: the wall clock moves, tzinfo is kept
PlusHours(d, hours) == [d EXCEPT !.wall = @ + hours, !.fold = 0]

parse_dt_wall(local, words, ref, as_epoch) ==
    LET ref_dt == IF ref.tz = <<>> THEN datetime_with_timezone(local, ref, <<>>) ELSE ref
        g      == ReadParts(SplitCommas(StripCommas(ReplaceWords(words)), <<>>),
                            [days |-> 0, hours |-> 0])
    IN  IF g.err # "" THEN [err |-> g.err, value |-> <<>>]
        ELSE [err |-> "",
              value |-> <<PlusHours(ref_dt,
                                    IF "before" \in Range(words) \/ "ago" \in Range(words)
                                    THEN - relativedelta(g.dt_dict)
                                    ELSE relativedelta(g.dt_dict))>>]

\* parse_dt(dt, ref_datetime, epoch), lines 269-308, for a datetime as
\* ref_datetime; local is LOCAL_ZONE_NAME
parse_dt(local, words, ref, as_epoch) ==
    LET ref_dt   == IF ref.tz = <<>> THEN datetime_with_timezone(local, ref, <<>>) ELSE ref
        is_retro == "before" \in Range(words) \/ "ago" \in Range(words)
        Result(g) ==
            IF g.err # "" THEN [err |-> g.err, value |-> <<>>]
            ELSE LET ref_dt_as_utc == datetime_with_timezone(local, ref_dt, <<UTC>>)
                     datetime_as_utc ==
                         IF is_retro
                         THEN PlusHours(ref_dt_as_utc, - relativedelta(g.dt_dict))
                         ELSE PlusHours(ref_dt_as_utc, relativedelta(g.dt_dict))
                     datetime == datetime_with_timezone(local, datetime_as_utc, ref_dt.tz)
                     \* _datetime.timestamp is the bound method, not its value
                     r == IF as_epoch THEN [method |-> "timestamp", self |-> datetime]
                          ELSE datetime
                 IN  \* datetime_with_timezone(r) reads r.tzinfo
                     IF "tz" \notin DOMAIN r
                     THEN [err |-> "AttributeError", value |-> <<>>]
                     ELSE [err |-> "", value |-> <<datetime_with_timezone(local, r, <<>>)>>]
    IN  Result(ReadParts(SplitCommas(StripCommas(ReplaceWords(words)), <<>>),
                         [days |-> 0, hours |-> 0]))

\* the texts: N hours after or before, with and without a day, and two
\* that cannot be read
Numerals == {ToString(n) : n \in 1..MaxDelta}

Texts ==
    {<<"after", n, "hours">> : n \in Numerals}
        \cup {<<n, "hours", "before">> : n \in Numerals}
        \cup {<<n, "hours", "ago">> : n \in Numerals}
        \cup {<<"after", "1", "day", "and", n, "hours">> : n \in Numerals}
        \cup {<<"after", "hours">>, <<"after", "1", "fortnight">>}

InitParseDt ==
    /\ LOCAL_ZONE_NAME \in ZoneNames
    /\ date_time = <<>> /\ time_zone = <<>> /\ dwt_r = <<>>
    /\ dt \in Texts
    /\ ref_datetime \in Datetimes
    /\ epoch \in BOOLEAN
    /\ parse_r = <<>>
    /\ DecoderIdle
    /\ UnescapeIdle
    /\ ExtIdle({"Datetime"})

\* the call parse_dt(dt, ref_datetime, epoch)
ParseDt ==
    /\ parse_r = <<>>
    /\ parse_r' = <<parse_dt(LOCAL_ZONE_NAME, dt, ref_datetime, epoch)>>
    /\ UNCHANGED <<dvars, uvars, LOCAL_ZONE_NAME, date_time, time_zone, dwt_r, dt,
                   ref_datetime, epoch, ext_Datetime>>

NextParseDt == ParseDt

SpecParseDt == InitParseDt /\ [][NextParseDt]_vars

\* the reference with its zone, and the hours of 'after N hours' (N) and of
\* 'N hours before' (-N); 0 for any other text
RefWithZone ==
    IF ref_datetime.tz = <<>> THEN [ref_datetime EXCEPT !.tz = <<LOCAL_ZONE_NAME>>]
    ELSE ref_datetime

HoursOfText ==
    IF Len(dt) = 3 /\ dt[1] = "after" /\ dt[3] = "hours" /\ IsInt(dt[2]) THEN int(dt[2])
    ELSE IF Len(dt) = 3 /\ dt[2] = "hours" /\ dt[3] = "before" /\ IsInt(dt[1])
    THEN - int(dt[1])
    ELSE 0

\* C24: 'after N hours' and 'N hours before' give a datetime in the zone of
\* the reference whose instant is N hours after and before the instant of
\* the reference, also across a transition of daylight saving time; the
\* reference given in UTC for the same instant gives the same instant
C24_ElapsedHours ==
    (parse_r # <<>> /\ ~ epoch /\ HoursOfText # 0) =>
        /\ parse_r[1].err = ""
        /\ parse_r[1].value[1].tz = RefWithZone.tz
        /\ parse_r[1].value[1].sub = ref_datetime.sub
        /\ Instant(parse_r[1].value[1]) = Instant(RefWithZone) + HoursOfText
        /\ LET u == parse_dt(LOCAL_ZONE_NAME, dt, fromutc(UTC, Instant(RefWithZone),
                                                         ref_datetime.sub), FALSE)
           IN  /\ u.err = ""
               /\ u.value[1].tz = <<UTC>>
               /\ Instant(u.value[1]) = Instant(parse_r[1].value[1])

\* 3 hours after 2016-11-05T23:00 in New York (daylight saving time) is
\* 2016-11-06T01:00 standard time, two hours later on the wall clock
C24_Witness ==
    /\ parse_r # <<>> /\ ~ epoch
    /\ ref_datetime.tz = <<NewYork>> /\ ref_datetime.wall = DstEndUtc - 5 - 2
    /\ dt = <<"after", "3", "hours">>
    /\ parse_r[1].err = ""
    /\ parse_r[1].value[1].wall = ref_datetime.wall + 2
    /\ parse_r[1].value[1].fold = 1
    /\ utcoffset(parse_r[1].value[1]) = -5

\* C25: with epoch=True the call returns the computed date time as seconds
\* since the Epoch and raises no error
C25_EpochReturnsSeconds ==
    (parse_r # <<>> /\ epoch /\ HoursOfText # 0) => parse_r[1].err = ""

\* ------------------------------------------ ArchiverMgmtClient.get_pv_status
\* A dict is a function of its keys; a value that may be None is <<>> for
\* None and <<v>> for v.
\* _make_params(d), lines 227-233: the parameters that are not None
make_params(d) == [key \in {q \in DOMAIN d : d[q] # <<>>} |-> d[key][1]]

\* the answer to getPVStatus with the parameters ps: one entry per PV that
\* the parameter pv names, in the form the parameter reporttype asks for
PVStatusEntries(srv, ps) ==
    LET names == IF "pv" \notin DOMAIN ps THEN {}
                 ELSE IF ps["pv"] = AnyPV THEN DOMAIN srv
                 ELSE {ps["pv"]} \cap DOMAIN srv
    IN  [n \in names |->
            [pvName |-> n, status |-> srv[n],
             report |-> IF "reporttype" \in DOMAIN ps THEN ps["reporttype"] ELSE "full"]]

\* d.update(e) of two dicts
DictUpdate(d, e) ==
    [key \in (DOMAIN d) \cup (DOMAIN e) |-> IF key \in DOMAIN e THEN e[key] ELSE d[key]]

\* the loop of lines 92-96: st is [pv_status, sent]
RECURSIVE StatusOfEach(_, _, _, _)
StatusOfEach(srv, pvs, kws, st) ==
    IF pvs = <<>> THEN st
    ELSE LET kws1 == DictSet([key \in DOMAIN kws |-> kws[key]], "pv", <<pvs[1]>>)
         IN  StatusOfEach(srv, Tail(pvs), kws,
                 [pv_status |-> DictUpdate(st.pv_status,
                                           PVStatusEntries(srv, make_params(kws1))),
                  sent |-> Append(st.sent, make_params(kws1))])

ArchiverMgmtClient_get_pv_status_last(srv, p, kws) ==
    LET one  == PVStatusEntries(srv, make_params(DictSet(kws, "pv", <<p.items[Len(p.items)]>>)))
    IN  IF p.items = <<>> THEN [pv_status |-> EmptyDict, sent |-> <<>>]
        ELSE [pv_status |-> one,
              sent |-> [j \in DOMAIN p.items |->
                           make_params(DictSet(kws, "pv", <<p.items[j]>>))]]

\* ArchiverMgmtClient.get_pv_status(pv, **kws), lines 85-97: the dict
\* returned and the requests sent
ArchiverMgmtClient_get_pv_status(srv, p, kws) ==
    IF p.shape = "str"
    THEN LET kws1 == DictSet(kws, "pv", <<p.items[1]>>)
         IN  [pv_status |-> PVStatusEntries(srv, make_params(kws1)),
              sent |-> <<make_params(kws1)>>]
    ELSE StatusOfEach(srv, p.items, kws, [pv_status |-> EmptyDict, sent |-> <<>>])

KwsValues ==
    {EmptyDict,
     [key \in {"reporttype"} |-> <<"short">>],
     [key \in {"reporttype"} |-> <<>>]}

InitMgmt ==
    /\ mgmt_pv \in PvArguments
    /\ mgmt_kws \in KwsValues
    /\ mgmt_srv \in [PVNames -> StatusValues]
    /\ mgmt_sent = <<>>
    /\ mgmt_r = <<>>
    /\ DecoderIdle
    /\ UnescapeIdle
    /\ ExtIdle({"Mgmt"})

\* one call of client.get_pv_status(pv, **kws)
MgmtGetPvStatus ==
    /\ mgmt_r = <<>>
    /\ LET Returned(g) ==
               /\ mgmt_r' = <<g.pv_status>>
               /\ mgmt_sent' = g.sent
       IN  Returned(ArchiverMgmtClient_get_pv_status(mgmt_srv, mgmt_pv, mgmt_kws))
    /\ UNCHANGED <<dvars, uvars, mgmt_pv, mgmt_kws, mgmt_srv, ext_Mgmt>>

NextMgmt == MgmtGetPvStatus

SpecMgmt == InitMgmt /\ [][NextMgmt]_vars

\* the call for the single element e with the keyword arguments of the call
SingleCall(e) == ArchiverMgmtClient_get_pv_status(mgmt_srv, StrValue(e), mgmt_kws)

\* C26: for a list, the dict returned is the union of the dicts of the calls
\* for each element with the same keyword arguments, and the request for an
\* element is the request of its single call
C26_ListIsUnionOfSingles ==
    (mgmt_r # <<>> /\ mgmt_pv.shape = "list") =>
        /\ DOMAIN mgmt_r[1] =
               UNION {DOMAIN SingleCall(mgmt_pv.items[j]).pv_status : j \in DOMAIN mgmt_pv.items}
        /\ \A j \in DOMAIN mgmt_pv.items :
               /\ \A n \in DOMAIN SingleCall(mgmt_pv.items[j]).pv_status :
                      mgmt_r[1][n] = SingleCall(mgmt_pv.items[j]).pv_status[n]
               /\ <<mgmt_sent[j]>> = SingleCall(mgmt_pv.items[j]).sent
        /\ Len(mgmt_sent) = Len(mgmt_pv.items)

\* a list of two names with reporttype given: both entries are returned
C26_Witness ==
    /\ mgmt_r # <<>>
    /\ mgmt_pv = ListValue(<<"A", "B">>)
    /\ mgmt_kws = [key \in {"reporttype"} |-> <<"short">>]
    /\ DOMAIN mgmt_r[1] = {"A", "B"}
    /\ mgmt_r[1]["A"].report = "short" /\ mgmt_r[1]["B"].report = "short"
    /\ mgmt_sent[2] = [key \in {"pv", "reporttype"} |-> IF key = "pv" THEN "B" ELSE "short"]

\* ------------------------------------------- the two states of the decoder
\* the non-blank lines among lines 1..n, in line order
RECURSIVE NonBlankLines(_)
NonBlankLines(n) ==
    IF n = 0 THEN <<>>
    ELSE IF IsBlankLine(n) THEN NonBlankLines(n - 1)
    ELSE Append(NonBlankLines(n - 1), n)

\* C27: the decoder has two states.  The first non-blank line and every
\* non-blank line directly after a blank line is parsed as a header and never
\* as a sample, every other non-blank line is parsed as a sample and never as
\* a header, and a blank line is handed to no parser; the flag tells the two
\* states apart at every line
C27_TwoStateMachine ==
    pc \in {"loop", "returned", "raised"} =>
        LET js == NonBlankLines(k - 1)
        IN  /\ Len(parsed) = Len(js)
            /\ \A m \in DOMAIN parsed :
                  /\ parsed[m].raw = lines[js[m]]
                  /\ IsHeaderLine(js[m]) => parsed[m].kind = "header"
                  /\ IsDataLine(js[m]) => parsed[m].kind = "sample"
            /\ (pc = "loop" /\ k <= Len(lines) /\ ~ IsBlankLine(k)) =>
                  (hit_header <=> IsHeaderLine(k))

\* a returned call on header, sample, blank line, header: parsed as header,
\* sample, header
C27_Witness ==
    /\ pc = "returned"
    /\ Len(lines) = 4
    /\ IsBlankLine(3)
    /\ Len(parsed) = 3
    /\ parsed[1].kind = "header" /\ parsed[1].raw = lines[1]
    /\ parsed[2].kind = "sample" /\ parsed[2].raw = lines[2]
    /\ parsed[3].kind = "header" /\ parsed[3].raw = lines[4]

\* ------------------------------------------- blocks of two years and types
\* unpack_raw_data on buffers of two blocks, each with a header of its own
\* sample type and year
HeaderOfTypeYear(tag, y) == escape(<<8, tag, 18, 1, 65, 24>> \o Varint(y))

SmpFull    == <<8, 2, 16, 7, 24, 6, 32, 1, 40, 2>>  \* 2 s, 7 ns, val 6, severity 1, status 2
SmpSecOnly == <<8, 4>>                              \* secondsintoyear 4, nothing else

BlockTags == {1, 12}           \* SCALAR_SHORT, WAVEFORM_INT

BlockYears == {2020, 2023}

BlockSamples == {SmpFull, SmpTwoVals, SmpSecOnly}

Blocks ==
    {<<HeaderOfTypeYear(tag, y)>> \o ls :
        tag \in BlockTags, y \in BlockYears,
        ls \in UNION {[1..n -> BlockSamples] : n \in 0..MaxBlockLines}}

BlockBuffers == {Join(b1 \o <<Blank>> \o b2) : b1 \in Blocks, b2 \in Blocks}

InitBlocks ==
    /\ data \in BlockBuffers
    /\ lines = <<>>
    /\ k = 0
    /\ LocalsAre([InitLocals EXCEPT !.pc = "call"])
    /\ UnescapeIdle
    /\ ExtIdle({})

SpecBlocks == InitBlocks /\ [][Next]_vars

\* the header that the line h declares
InfoOfLine(h) == PayloadInfo_ParseFromString(unescape(strip(lines[h])))

\* C28: while a data line is decoded the year base and the sample parser are
\* those of the most recent header before it, and every sample has the year
\* and the sample type of the header of its own block, also when the blocks
\* of the buffer differ in year and in type
C28_SamplesUseOwnHeader ==
    /\ (pc = "loop" /\ k <= Len(lines) /\ IsDataLine(k)) =>
          LET I == InfoOfLine(HeaderOf(k))
          IN  /\ year = <<I.year>>
              /\ year_in_sec = <<YearInSec(I.year)>>
              /\ f[1].cls = SAMPLE_PARSER_MAP[PayloadTypeNames[I.type + 1]]
    /\ \A n \in DOMAIN unpacked_data :
          LET j   == DataLineIdx[n]
              I   == InfoOfLine(HeaderOf(j))
              cls == SAMPLE_PARSER_MAP[PayloadTypeNames[I.type + 1]]
              fs  == ParseFields(unescape(strip(lines[j])), 1).fields
              d   == unpacked_data[n]
          IN  /\ d.secs = [YearInSec(I.year) EXCEPT !.secs = @ + VarintField(fs, 1)]
              /\ d.val = SampleVal(cls, fs)

\* a returned call with a SCALAR_SHORT block of the year 2020 and a
\* WAVEFORM_INT block of the year 2023, one sample each
C28_Witness ==
    /\ pc = "returned"
    /\ Len(lines) = 5
    /\ InfoOfLine(1).year = 2020 /\ InfoOfLine(1).type = 1
    /\ InfoOfLine(4).year = 2023 /\ InfoOfLine(4).type = 12
    /\ Len(result[1].data) = 2
    /\ result[1].data[1].secs = [YearInSec(2020) EXCEPT !.secs = @ + 2]
    /\ result[1].data[1].val = [shape |-> "scalar", items |-> <<6>>]
    /\ result[1].data[2].secs = [YearInSec(2023) EXCEPT !.secs = @ + 2]
    /\ result[1].data[2].val = [shape |-> "sequence", items |-> <<5, 6>>]

\* the record that the data line j gives on a message object of its own:
\* the fields of the line, the default for a field the line does not have
OwnRecord(j) ==
    LET I   == InfoOfLine(HeaderOf(j))
        cls == SAMPLE_PARSER_MAP[PayloadTypeNames[I.type + 1]]
        fs  == ParseFields(unescape(strip(lines[j])), 1).fields
        Field(num) == IF FieldsOf(fs, num, 0) = <<>> THEN 0 ELSE VarintField(fs, num)
    IN  [secs |-> [YearInSec(I.year) EXCEPT !.secs = @ + Field(1)],
         val |-> IF FieldsOf(fs, 3, 0) = <<>> THEN NewMessage(cls).val ELSE SampleVal(cls, fs),
         nanos |-> Field(2), status |-> Field(5), severity |-> Field(4)]

ExtraHeaders ==
    {[name |-> NameKey, val |-> <<88>>],      \* name: X
     [name |-> <<107>>, val |-> <<49>>],      \* k: 1
     [name |-> <<107>>, val |-> <<50>>],      \* k: 2
     [name |-> <<117>>, val |-> <<49>>]}      \* u: 1

ExtraHeaderLists == UNION {[1..n -> ExtraHeaders] : n \in 0..MaxHeaders}

HeaderPvs == {65, 66}

\* a FieldValue message, and the field 15 entries of a PayloadInfo
FieldValueBytes(fv) ==
    <<10, Len(fv.name)>> \o fv.name \o <<18, Len(fv.val)>> \o fv.val

RECURSIVE HeadersBytes(_)
HeadersBytes(hs) ==
    IF hs = <<>> THEN <<>>
    ELSE <<122, Len(FieldValueBytes(hs[1]))>> \o FieldValueBytes(hs[1])
         \o HeadersBytes(Tail(hs))

\* the header line of SCALAR_SHORT, pvname <<pvbyte>>, year 2020 and the extra
\* headers hs, as the server writes it
HeaderWith(pvbyte, hs) == escape(<<8, 1, 18, 1, pvbyte, 24, 228, 15>> \o HeadersBytes(hs))

HeaderBuffers ==
    {Join(<<HeaderWith(pvbyte, hs)>> \o rest) :
        pvbyte \in HeaderPvs, hs \in ExtraHeaderLists, rest \in {<<>>, <<Smp1, Blank>>}}

InitHeaders ==
    /\ data \in HeaderBuffers
    /\ lines = <<>>
    /\ k = 0
    /\ LocalsAre([InitLocals EXCEPT !.pc = "call"])
    /\ UnescapeIdle
    /\ ExtIdle({})

SpecHeaders == InitHeaders /\ [][Next]_vars

\* the dictionaries of the call: header_dict once bound, and the returned one
MetaDicts ==
    {header_dict[n] : n \in DOMAIN header_dict} \cup {result[n].meta : n \in DOMAIN result}

\* the value of the last of the extra headers hs that has the name key
LastValue(hs, key) ==
    hs[CHOOSE j \in DOMAIN hs :
          hs[j].name = key /\ \A g \in DOMAIN hs : hs[g].name = key => g <= j].val

\* C29: the header line is the encoding of a pvname and a list of extra
\* headers.  The key 'name' of the metadata holds the pvname of the header, also
\* when an extra header has the key 'name'; every other key of an extra
\* header holds the value declared for it, the last one when the key is
\* given more than once, and the metadata has no other key
C29_NameIsPvname ==
    lines # <<>> =>
        LET I  == InfoOfLine(1)
            hs == I.headers
        IN  /\ hs \in ExtraHeaderLists
            /\ lines[1] = HeaderWith(I.pvname[1], hs)
            /\ \A d \in MetaDicts :
                  /\ DOMAIN d = {NameKey} \cup {hs[j].name : j \in DOMAIN hs}
                  /\ d[NameKey] = I.pvname
                  /\ \A key \in (DOMAIN d) \ {NameKey} : d[key] = LastValue(hs, key)

\* a returned call on a header of pvname "A" with the extra headers
\* name: X, k: 1, k: 2
C29_Witness ==
    /\ pc = "returned"
    /\ lines[1] = HeaderWith(65, <<[name |-> NameKey, val |-> <<88>>],
                                   [name |-> <<107>>, val |-> <<49>>],
                                   [name |-> <<107>>, val |-> <<50>>]>>)
    /\ result[1].meta[NameKey] = <<65>>
    /\ result[1].meta[<<107>>] = <<50>>

====
